---- MODULE Spec2Model ----
(***************************************************************************)
(* One reconciliation pass of sync_table (src/sync_chase_to_pipefy_db.py)  *)
(* over one Pipefy table: paginated fetch of the destination snapshot,     *)
(* create / update / archive classification, construction of the mutation  *)
(* fragments and their batched submission.                                 *)
(* Further specifications take the parts on their own: SpecRetry one call  *)
(* of chase_api_get or pipefy_post, SpecExecute execute_pipefy_mutations   *)
(* on long lists, SpecSanitize sanitize_graphql_string, SpecMain one run   *)
(* of main, SpecBuild build_pipefy_mutations on records with look-alike    *)
(* keys, SpecCollect the fetch of one config's business units followed by  *)
(* the sync of their table, SpecDelete one run of                          *)
(* src/delete_pipefy_table.py.                                             *)
(*                                                                         *)
(* Python values are tagged: [k |-> "none" | "str" | "int", s |-> chars],  *)
(* a string being the sequence of its characters and an int the sequence   *)
(* of its decimal digits.  A dict read by key only (a record) is a         *)
(* function from its keys; a dict that is iterated (field_mapping, the key *)
(* maps, fields_to_set) is the sequence of its <<key, value>> items in     *)
(* insertion order.                                                        *)
(***************************************************************************)
EXTENDS Integers, Sequences, FiniteSets, TLC

\* ------------------------------------------------------------------ bounds
MaxSrc == 2        \* records in chase_data_list
MaxDst == 2        \* records in the destination table
MaxPages == 2      \* pages the destination serves for one fetch

\* --------------------------------------------------------- python values
VNone == [k |-> "none", s |-> <<>>]
VStr(s) == [k |-> "str", s |-> s]
VInt(s) == [k |-> "int", s |-> s]

\* str(value)
PyStr(v) == IF v.k = "none" THEN <<"N", "o", "n", "e">> ELSE v.s

\* truth value of a python object: None, "" and 0 are false
Truthy(v) ==
    CASE v.k = "none" -> FALSE
      [] v.k = "str" -> v.s # <<>>
      [] OTHER -> v.s # <<"0">>

\* record.get(key, default)
Get(record, key, default) == IF key \in DOMAIN record THEN record[key] ELSE default

\* DictSet keeping the value a key already has
DictSetKeepFirst(d, key, value) ==
    IF \E j \in 1..Len(d) : d[j][1] = key THEN d ELSE Append(d, <<key, value>>)

\* d[key] = value on an insertion-ordered dict
DictSet(d, key, value) ==
    IF \E j \in 1..Len(d) : d[j][1] = key
    THEN [j \in 1..Len(d) |-> IF d[j][1] = key THEN <<key, value>> ELSE d[j]]
    ELSE Append(d, <<key, value>>)

DictHas(d, key) == \E j \in 1..Len(d) : d[j][1] = key

DictGet(d, key) == d[CHOOSE j \in 1..Len(d) : d[j][1] = key][2]

\* "sep".join(parts)
RECURSIVE Join(_, _)
Join(parts, sep) ==
    IF parts = <<>> THEN <<>>
    ELSE IF Len(parts) = 1 THEN parts[1]
    ELSE parts[1] \o sep \o Join(Tail(parts), sep)

\* s.replace(c, rep) for a one-character pattern c
RECURSIVE Replace(_, _, _)
Replace(s, c, rep) ==
    IF s = <<>> THEN <<>>
    ELSE (IF Head(s) = c THEN rep ELSE <<Head(s)>>) \o Replace(Tail(s), c, rep)

IsSpace(c) == c \in {" ", "\t", "\n", "\r"}

\* s.split(): the maximal runs of non-whitespace characters
RECURSIVE Split(_, _, _)
Split(s, word, acc) ==
    IF s = <<>> THEN (IF word = <<>> THEN acc ELSE Append(acc, word))
    ELSE IF IsSpace(Head(s))
         THEN Split(Tail(s), <<>>, IF word = <<>> THEN acc ELSE Append(acc, word))
         ELSE Split(Tail(s), Append(word, Head(s)), acc)

\* CollapseWs leaving the whitespace as it is
CollapseWsNot(s) == s

\* ' '.join(str(value).split())
CollapseWs(s) == Join(Split(s, <<>>, <<>>), <<" ">>)

sanitize_graphql_string_raw(value) ==
    Replace(Replace(Replace(Replace(Replace(CollapseWs(PyStr(value)),
        "\\", <<"\\", "\\">>), "\"", <<"\\", "\"">>), "\n", <<"\\", "n">>),
        "\r", <<"\\", "r">>), "\t", <<"\\", "t">>)

sanitize_graphql_string(value) ==
    IF value.k = "none" THEN <<>> ELSE sanitize_graphql_string_raw(value)

\* --------------------------------------------------------- configuration
BU_AGENCY_TABLE_ID == "306759746"
DIVISIONS_TABLE_ID == "306760306"
PRODUCT_TABLE_ID == "306759773"

Tables == {BU_AGENCY_TABLE_ID, DIVISIONS_TABLE_ID, PRODUCT_TABLE_ID}

bu_agency_field_map ==
    [keys |-> <<"config_id", "business_unit_id">>,
     fields |-> << <<"config_id", "config_id">>,
                   <<"business_unit_id", "business_unit_id">>,
                   <<"business_unit_name", "business_unit_name">> >>]

product_client_field_map ==
    [keys |-> <<"config_id", "client_id", "product_id">>,
     fields |-> << <<"config_id", "config_id">>,
                   <<"client_id", "customer_id">>,
                   <<"client_name", "customer_name">>,
                   <<"product_id", "product_id">>,
                   <<"product_name", "product">>,
                   <<"contact_name", "client_contact_name">> >>]

divisions_field_map ==
    [keys |-> <<"division_id", "customer_id">>,
     fields |-> << <<"division_id", "division_id">>,
                   <<"division_name", "division_name">>,
                   <<"customer_id", "customer_id">>,
                   <<"customer_name", "customer_name">> >>]

\* the field mapping main passes to sync_table for each table
FieldMapping(table_id) ==
    CASE table_id = BU_AGENCY_TABLE_ID -> bu_agency_field_map
      [] table_id = DIVISIONS_TABLE_ID -> divisions_field_map
      [] OTHER -> product_client_field_map

title_keys == <<"product_name", "business_unit_name", "division_name">>

InSeq(x, s) == \E j \in 1..Len(s) : s[j] = x

ACTIVE == <<"A", "c", "t", "i", "v", "e">>
ARCHIVED == <<"A", "r", "c", "h", "i", "v", "e", "d">>

\* the title derived from a source record: the first title key it has
DeriveTitle(record) ==
    IF "product_name" \in DOMAIN record
    THEN sanitize_graphql_string(record["product_name"])
    ELSE IF "business_unit_name" \in DOMAIN record
    THEN sanitize_graphql_string(record["business_unit_name"])
    ELSE IF "division_name" \in DOMAIN record
    THEN sanitize_graphql_string(record["division_name"])
    ELSE <<>>

\* get_key of sync_table
get_key(record, is_pipefy, table_id, field_mapping) ==
    LET name(k) == IF is_pipefy THEN DictGet(field_mapping.fields, k) ELSE k
        key_parts == [j \in 1..Len(field_mapping.keys) |->
                        PyStr(Get(record, name(field_mapping.keys[j]), VStr(<<>>)))]
        div_parts == << PyStr(Get(record, name("division_id"), VStr(<<>>))),
                        PyStr(Get(record, name("customer_id"), VStr(<<>>))) >>
    IN Join(IF table_id = DIVISIONS_TABLE_ID THEN div_parts ELSE key_parts, <<"-">>)

\* ------------------------------------------------- build_pipefy_mutations
WordChars ==
    {"a", "b", "c", "d", "e", "f", "g", "h", "i", "j", "k", "l", "m", "n", "o",
     "p", "q", "r", "s", "t", "u", "v", "w", "x", "y", "z",
     "A", "B", "C", "D", "E", "F", "G", "H", "I", "J", "K", "L", "M", "N", "O",
     "P", "Q", "R", "S", "T", "U", "V", "W", "X", "Y", "Z",
     "0", "1", "2", "3", "4", "5", "6", "7", "8", "9", "_"}

Digits == <<"0", "1", "2", "3", "4", "5", "6", "7", "8", "9">>

\* str(n) for a natural number n
RECURSIVE IntStr(_)
IntStr(n) == IF n < 10 THEN <<Digits[n + 1]>> ELSE IntStr(n \div 10) \o <<Digits[(n % 10) + 1]>>

ActionChars(action) ==
    CASE action = "create" -> <<"c", "r", "e", "a", "t", "e">>
      [] action = "update" -> <<"u", "p", "d", "a", "t", "e">>
      [] OTHER -> <<"a", "r", "c", "h", "i", "v", "e">>

\* re.sub(r'\W|^(?=\d)', '_', s)
ReSubNonWord(s) ==
    (IF s # <<>> /\ s[1] \in {Digits[d] : d \in 1..10} THEN <<"_">> ELSE <<>>)
    \o [j \in 1..Len(s) |-> IF s[j] \in WordChars THEN s[j] ELSE "_"]

\* unique_suffix without the position counter
unique_suffix_no_counter(record, i, action, field_mapping) ==
    LET key_values == [j \in 1..Len(field_mapping.keys) |->
                         PyStr(Get(record, field_mapping.keys[j], VStr(<<>>)))]
    IN ReSubNonWord(ActionChars(action) \o <<"_">> \o Join(key_values, <<"_">>))

\* unique_suffix of the i-th record (i counts from 0)
unique_suffix(record, i, action, field_mapping) ==
    LET key_values == [j \in 1..Len(field_mapping.keys) |->
                         PyStr(Get(record, field_mapping.keys[j], VStr(<<>>)))]
    IN ReSubNonWord(ActionChars(action) \o <<"_">> \o IntStr(i) \o <<"_">>
                    \o Join(key_values, <<"_">>))

MutAlias(suffix) == <<"m", "u", "t", "_">> \o suffix

\* a mutation fragment: the alias, the GraphQL operation and its input
Fragment(alias, i, op, table_id, record_id, title, values) ==
    [alias |-> alias, i |-> i, op |-> op, table_id |-> table_id,
     record_id |-> record_id, title |-> title, values |-> values]

\* the guard of line 274: the record is not skipped
CreateKeysOk(record, field_mapping) ==
    \A j \in 1..Len(field_mapping.keys) :
        field_mapping.keys[j] \in DOMAIN record
            => PyStr(record[field_mapping.keys[j]]) # <<>>

\* fields_to_set of the create branch, before status is set
RECURSIVE CreateFields(_, _, _)
CreateFields(record, fields, acc) ==
    IF fields = <<>> THEN acc
    ELSE CreateFields(record, Tail(fields),
            IF Head(fields)[1] \in DOMAIN record
            THEN DictSet(acc, Head(fields)[2],
                         sanitize_graphql_string(record[Head(fields)[1]]))
            ELSE acc)

\* the fragments the create branch appends for record number i
BuildCreate(record, i, table_id, field_mapping) ==
    IF ~CreateKeysOk(record, field_mapping) THEN <<>>
    ELSE << Fragment(MutAlias(unique_suffix(record, i, "create", field_mapping)), i,
                     "createTableRecord", table_id, <<>>, DeriveTitle(record),
                     DictSet(CreateFields(record, field_mapping.fields, <<>>),
                             "status", ACTIVE)) >>

\* fields_to_set of the update branch, before status is set
RECURSIVE UpdateFields(_, _, _, _)
UpdateFields(record, fields, keys, acc) ==
    IF fields = <<>> THEN acc
    ELSE UpdateFields(record, Tail(fields), keys,
            IF /\ ~InSeq(Head(fields)[1], keys)
               /\ ~InSeq(Head(fields)[1], title_keys)
               /\ Head(fields)[1] \in DOMAIN record
            THEN DictSet(acc, Head(fields)[2],
                         sanitize_graphql_string(record[Head(fields)[1]]))
            ELSE acc)

\* TitleNeedsUpdate without the comparison with the current title
TitleNeedsUpdateAlways(new_title, current_title) == new_title # <<>>

\* title_needs_update of the update branch
TitleNeedsUpdate(new_title, current_title) ==
    new_title # <<>> /\ current_title # VStr(new_title)

\* the fragments the update branch appends for record number i
BuildUpdate(record, i, table_id, field_mapping) ==
    LET pipefy_record_id == Get(record, "pipefy_record_id", VNone)
        suffix == unique_suffix(record, i, "update", field_mapping)
        fields_to_set ==
            DictSet(UpdateFields(record, field_mapping.fields, field_mapping.keys, <<>>),
                    "status",
                    sanitize_graphql_string(Get(record, "status", VStr(ACTIVE))))
        current_title == Get(record, "current_title", VStr(<<>>))
        new_title == DeriveTitle(record)
        title_needs_update == TitleNeedsUpdate(new_title, current_title)
        field_values == fields_to_set
    IN IF ~Truthy(pipefy_record_id) THEN <<>>
       ELSE (IF field_values # <<>>
             THEN << Fragment(MutAlias(suffix), i, "updateFieldsValues", table_id,
                              PyStr(pipefy_record_id), <<>>, field_values) >>
             ELSE <<>>)
            \o
            (IF title_needs_update
             THEN << Fragment(MutAlias(suffix \o <<"_", "t", "t", "l">>), i,
                              "updateTableRecord", table_id,
                              PyStr(pipefy_record_id), new_title, <<>>) >>
             ELSE <<>>)

\* BuildArchive that always takes the status fallback
BuildArchiveStatusOnly(record, i, table_id, field_mapping, done_phase_id) ==
    << Fragment(MutAlias(unique_suffix(record, i, "archive", field_mapping)), i,
                "updateFieldsValues", table_id,
                PyStr(Get(record, "pipefy_record_id", VNone)), <<>>,
                << <<"status", ARCHIVED>> >>) >>

\* the fragment the archive branch appends for record number i, given what
\* get_done_phase_id returned
BuildArchive(record, i, table_id, field_mapping, done_phase_id) ==
    LET pipefy_record_id == Get(record, "pipefy_record_id", VNone)
        suffix == unique_suffix(record, i, "archive", field_mapping)
    IN IF Truthy(done_phase_id)
       THEN << Fragment(MutAlias(suffix), i, "updateTableRecordField", table_id,
                        PyStr(pipefy_record_id), <<>>,
                        << <<"current_phase", PyStr(done_phase_id)>> >>) >>
       ELSE << Fragment(MutAlias(suffix), i, "updateFieldsValues", table_id,
                        PyStr(pipefy_record_id), <<>>,
                        << <<"status", ARCHIVED>> >>) >>

\* build_pipefy_mutations for the actions that send no request
RECURSIVE build_pipefy_mutations(_, _, _, _, _)
build_pipefy_mutations(records, i, table_id, action, field_mapping) ==
    IF i >= Len(records) THEN <<>>
    ELSE (IF action = "create"
          THEN BuildCreate(records[i + 1], i, table_id, field_mapping)
          ELSE BuildUpdate(records[i + 1], i, table_id, field_mapping))
         \o build_pipefy_mutations(records, i + 1, table_id, action, field_mapping)

\* ----------------------------------------------------- sync_table, the diff
\* {get_key(r): r for r in records}
RECURSIVE KeyMap(_, _, _, _, _)
KeyMap(records, is_pipefy, table_id, field_mapping, acc) ==
    IF records = <<>> THEN acc
    ELSE KeyMap(Tail(records), is_pipefy, table_id, field_mapping,
                DictSet(acc, get_key(Head(records), is_pipefy, table_id, field_mapping),
                        Head(records)))

\* pipefy_val of line 479-484
NormalizePipefyVal(record, slug) ==
    LET pipefy_val == Get(record, slug, VNone)
    IN IF pipefy_val.k = "none" THEN <<>> ELSE CollapseWs(PyStr(pipefy_val))

\* FieldsDiffer with the source value compared as it is, not sanitized
FieldsDifferUnsanitized(chase_record, pipefy_record, field_mapping) ==
    \E j \in 1..Len(field_mapping.fields) :
        /\ ~InSeq(field_mapping.fields[j][1], field_mapping.keys)
        /\ PyStr(Get(chase_record, field_mapping.fields[j][1], VNone))
             # NormalizePipefyVal(pipefy_record, field_mapping.fields[j][2])

\* the field loop of lines 476-488
FieldsDiffer(chase_record, pipefy_record, field_mapping) ==
    \E j \in 1..Len(field_mapping.fields) :
        /\ ~InSeq(field_mapping.fields[j][1], field_mapping.keys)
        /\ sanitize_graphql_string(Get(chase_record, field_mapping.fields[j][1], VNone))
             # NormalizePipefyVal(pipefy_record, field_mapping.fields[j][2])

\* StatusNotActive testing for 'Archived' instead of not 'Active'
StatusIsArchived(pipefy_record) == Get(pipefy_record, "status", VNone) = VStr(ARCHIVED)

\* the status test of line 503
StatusNotActive(pipefy_record) == Get(pipefy_record, "status", VNone) # VStr(ACTIVE)

\* needs_update of lines 474-504
NeedsUpdate(chase_record, pipefy_record, field_mapping) ==
    \/ FieldsDiffer(chase_record, pipefy_record, field_mapping)
    \/ TitleNeedsUpdate(DeriveTitle(chase_record), Get(pipefy_record, "title", VStr(<<>>)))
    \/ StatusNotActive(pipefy_record)

\* update_data of lines 507-510
UpdateData(chase_record, pipefy_record) ==
    ("pipefy_record_id" :> pipefy_record["pipefy_record_id"])
    @@ ("current_title" :> Get(pipefy_record, "title", VStr(<<>>)))
    @@ ("status" :> VStr(ACTIVE))
    @@ chase_record

\* ToCreate without the test of line 470: every source map entry is created
ToCreateAll(chase_map, pipefy_map) ==
    [j \in 1..Len(chase_map) |-> chase_map[j][2]]

\* the loop of lines 469-471: the records to create, in chase_map order
RECURSIVE ToCreate(_, _)
ToCreate(chase_map, pipefy_map) ==
    IF chase_map = <<>> THEN <<>>
    ELSE (IF ~DictHas(pipefy_map, Head(chase_map)[1])
          THEN <<Head(chase_map)[2]>> ELSE <<>>)
         \o ToCreate(Tail(chase_map), pipefy_map)

\* the loop of lines 469-511: the update payloads, in chase_map order
RECURSIVE ToUpdate(_, _, _)
ToUpdate(chase_map, pipefy_map, field_mapping) ==
    IF chase_map = <<>> THEN <<>>
    ELSE (IF /\ DictHas(pipefy_map, Head(chase_map)[1])
             /\ NeedsUpdate(Head(chase_map)[2],
                            DictGet(pipefy_map, Head(chase_map)[1]), field_mapping)
          THEN <<UpdateData(Head(chase_map)[2], DictGet(pipefy_map, Head(chase_map)[1]))>>
          ELSE <<>>)
         \o ToUpdate(Tail(chase_map), pipefy_map, field_mapping)

\* ToArchive without the status test of line 514
ToArchiveAnyStatus(pipefy_map, chase_map) ==
    LET orphans == { j \in 1..Len(pipefy_map) : ~DictHas(chase_map, pipefy_map[j][1]) }
        RECURSIVE Pick(_)
        Pick(j) == IF j > Len(pipefy_map) THEN <<>>
                   ELSE (IF j \in orphans THEN <<pipefy_map[j][2]>> ELSE <<>>) \o Pick(j + 1)
    IN Pick(1)

\* the loop of lines 513-515: the records to archive, in pipefy_map order
RECURSIVE ToArchive(_, _)
ToArchive(pipefy_map, chase_map) ==
    IF pipefy_map = <<>> THEN <<>>
    ELSE (IF /\ ~DictHas(chase_map, Head(pipefy_map)[1])
             /\ Get(Head(pipefy_map)[2], "status", VNone) # VStr(ARCHIVED)
          THEN <<Head(pipefy_map)[2]>> ELSE <<>>)
         \o ToArchive(Tail(pipefy_map), chase_map)

\* ------------------------------------------------------- get_done_phase_id
UpperChars == <<"D", "O", "N", "E">>
LowerChars == <<"d", "o", "n", "e">>

\* c.lower()
LowerChar(c) ==
    IF \E j \in 1..Len(UpperChars) : UpperChars[j] = c
    THEN LowerChars[CHOOSE j \in 1..Len(UpperChars) : UpperChars[j] = c]
    ELSE c

\* s.strip()
RECURSIVE Strip(_)
Strip(s) ==
    IF s = <<>> THEN s
    ELSE IF IsSpace(Head(s)) THEN Strip(Tail(s))
    ELSE IF IsSpace(s[Len(s)]) THEN Strip(SubSeq(s, 1, Len(s) - 1))
    ELSE s

\* the loop of lines 167-172: the id of the first phase named "done"
RECURSIVE FindDonePhase(_)
FindDonePhase(phases) ==
    IF phases = <<>> THEN VNone
    ELSE LET stripped == Strip(PyStr(Head(phases).name))
             phase_name == [j \in 1..Len(stripped) |-> LowerChar(stripped[j])]
         IN IF phase_name = <<"d", "o", "n", "e">>
            THEN Head(phases).id
            ELSE FindDonePhase(Tail(phases))

\* ------------------------------------------------------------ the inputs
I1 == VInt(<<"1">>)
I2 == VInt(<<"2">>)
S1 == VStr(<<"1">>)
S3 == VStr(<<"3">>)
NameA == VStr(<<"a">>)
NameB == VStr(<<"b">>)
NameAWs == VStr(<<" ", "a">>)
OtherX == VStr(<<"x">>)
OtherY == VStr(<<"y">>)
Missing == [k |-> "missing", s |-> <<>>]

\* a dict from a list of items, an item whose value is Missing left out
RECURSIVE MkRecord(_)
MkRecord(items) ==
    IF items = <<>> THEN <<>>
    ELSE IF Head(items)[2] = Missing THEN MkRecord(Tail(items))
    ELSE (Head(items)[1] :> Head(items)[2]) @@ MkRecord(Tail(items))

\* a source record as main builds it for the table (lines 600-605, 626-632,
\* 659-667); id is the last key attribute, name the title attribute
SrcRecord(table_id, id, name, other) ==
    CASE table_id = BU_AGENCY_TABLE_ID ->
            MkRecord(<< <<"config_id", I1>>, <<"business_unit_id", id>>,
                        <<"business_unit_name", name>>, <<"status", VStr(ACTIVE)>> >>)
      [] table_id = DIVISIONS_TABLE_ID ->
            MkRecord(<< <<"division_id", id>>, <<"division_name", name>>,
                        <<"customer_id", I1>>, <<"customer_name", other>>,
                        <<"status", VStr(ACTIVE)>> >>)
      [] OTHER ->
            MkRecord(<< <<"config_id", I1>>, <<"client_id", I1>>,
                        <<"client_name", NameA>>, <<"product_id", id>>,
                        <<"product_name", name>>, <<"contact_name", other>>,
                        <<"status", VStr(ACTIVE)>> >>)

\* the source records tried for each table, as <<id, name, other>>: a base
\* record and records that differ from it in one attribute
SrcVariants(table_id) ==
    CASE table_id = BU_AGENCY_TABLE_ID ->
            { <<I1, NameA, OtherX>>, <<I1, NameB, OtherX>>, <<I2, NameA, OtherX>>,
              <<Missing, NameA, OtherX>>, <<VStr(<<>>), NameA, OtherX>> }
      [] table_id = DIVISIONS_TABLE_ID ->
            { <<I1, NameA, OtherX>>, <<I1, NameB, OtherX>>, <<I1, NameAWs, OtherX>>,
              <<I1, NameA, OtherY>>, <<I1, NameA, VNone>>, <<I2, NameA, OtherX>> }
      [] OTHER ->
            { <<I1, NameA, OtherX>>, <<I1, NameB, OtherX>>, <<I1, NameA, OtherY>>,
              <<I2, NameA, OtherX>>, <<Missing, NameA, OtherX>>,
              <<VNone, NameA, OtherX>> }

SrcRecords(table_id) ==
    { SrcRecord(table_id, v[1], v[2], v[3]) : v \in SrcVariants(table_id) }

\* a row of the destination table: its title and its record_fields
DstRow(table_id, id, title, name, other, status) ==
    [title |-> title,
     record_fields |->
        CASE table_id = BU_AGENCY_TABLE_ID ->
                MkRecord(<< <<"config_id", S1>>, <<"business_unit_id", id>>,
                            <<"business_unit_name", name>>, <<"status", status>> >>)
          [] table_id = DIVISIONS_TABLE_ID ->
                MkRecord(<< <<"division_id", id>>, <<"division_name", name>>,
                            <<"customer_id", S1>>, <<"customer_name", other>>,
                            <<"status", status>> >>)
          [] OTHER ->
                MkRecord(<< <<"config_id", S1>>, <<"customer_id", S1>>,
                            <<"customer_name", NameA>>, <<"product_id", id>>,
                            <<"product", name>>, <<"client_contact_name", other>>,
                            <<"status", status>> >>)]

\* the destination rows tried for each table, as <<id, title, name, other,
\* status>>: rows that match the base source record, and rows with a key no
\* source record has
DstVariants(table_id) ==
    CASE table_id = BU_AGENCY_TABLE_ID ->
            { <<S1, NameA, NameA, OtherX, VStr(ACTIVE)>>,
              <<S1, NameA, NameA, OtherX, VStr(ARCHIVED)>>,
              <<S1, NameA, NameA, OtherX, Missing>>,
              <<S3, NameA, NameA, OtherX, VStr(ACTIVE)>>,
              <<S3, NameA, NameA, OtherX, VStr(ARCHIVED)>> }
      [] table_id = DIVISIONS_TABLE_ID ->
            { <<S1, NameA, NameA, OtherX, VStr(ACTIVE)>>,
              <<S1, NameA, NameA, OtherX, Missing>>,
              <<S1, NameA, NameA, VNone, VStr(ACTIVE)>>,
              <<S1, NameA, NameB, OtherX, VStr(ACTIVE)>>,
              <<S3, NameA, NameA, OtherX, VStr(ACTIVE)>>,
              <<S3, NameA, NameA, OtherX, VStr(ARCHIVED)>> }
      [] OTHER ->
            { <<S1, NameA, NameA, OtherX, VStr(ACTIVE)>>,
              <<S1, NameA, NameA, OtherX, VStr(ARCHIVED)>>,
              <<S3, NameA, NameA, OtherX, VStr(ACTIVE)>>,
              <<S3, NameA, NameA, OtherX, VStr(ARCHIVED)>> }

DstRows(table_id) ==
    { DstRow(table_id, v[1], v[2], v[3], v[4], v[5]) : v \in DstVariants(table_id) }

SeqsUpTo(S, n) == UNION { [1..m -> S] : m \in 0..n }

\* the phase lists a table can have
PhaseLists ==
    { <<>>,
      << [id |-> VStr(<<"7">>), name |-> VStr(<<"O", "p", "e", "n">>)] >>,
      << [id |-> VStr(<<"7">>), name |-> VStr(<<"O", "p", "e", "n">>)],
         [id |-> VStr(<<"8">>), name |-> VStr(<<" ", "D", "O", "n", "e">>)] >> }

\* record_data of lines 231-236, for the row served as record number n
RecordData(row, n) ==
    row.record_fields
    @@ ("pipefy_record_id" :> VStr(IntStr(n)))
    @@ ("title" :> row.title)

\* ------------------------------------------------------------- the state
VARIABLES
    pipefy_table_id,     \* sync_table's argument
    chase_data_list,     \* sync_table's argument
    pc,                  \* the position of sync_table
    all_records,         \* get_pipefy_table_records: the records accumulated
    page_count,          \* get_pipefy_table_records: the pages requested
    cursor,              \* get_pipefy_table_records: endCursor of the last page
    pipefy_data,         \* what get_pipefy_table_records returned
    to_create, to_update, to_archive,
    create_mutations, update_mutations, archive_mutations,
    archive_i,           \* build_pipefy_mutations(to_archive, ...): i of the loop
    done_phase_ids,      \* what get_done_phase_id returned, call by call
    DONE_PHASE_CACHE,
    batch_start,         \* execute_pipefy_mutations: i of the batch loop
    all_successful,      \* execute_pipefy_mutations: the flag
    success_c, success_u, success_a,
    response,            \* get_pipefy_table_records: the last page response
    requests,            \* the requests handed to pipefy_post, in order
    sent_cursors,        \* the cursor variable of each page request, in order
    pages,               \* the pages the destination served, in order
    submitted,           \* the batches handed to pipefy_post and how they fared
    result               \* what sync_table returned

\* one call of chase_api_get or pipefy_post
VARIABLES
    fn,                  \* the function called
    decode_error,        \* the exception class response.json() raises
    attempt,             \* attempt of the for loop
    delay,               \* delay
    outcomes,            \* what each attempt met, in order
    sleeps,              \* the arguments of time.sleep, in order
    returned             \* the value the call returned

syncVars == <<pipefy_table_id, chase_data_list, pc, all_records, page_count, cursor,
          pipefy_data, to_create, to_update, to_archive, create_mutations,
          update_mutations, archive_mutations, archive_i, done_phase_ids,
          DONE_PHASE_CACHE, batch_start, all_successful, success_c, success_u, success_a,
          response, requests, sent_cursors, pages, submitted, result>>

retryVars == <<fn, decode_error, attempt, delay, outcomes, sleeps, returned>>

\* sanitize_graphql_string applied to a value, and again to its own result
VARIABLES
    value,               \* the argument of the first call
    sanitized            \* the results of the successive calls

sanVars == <<value, sanitized>>

\* one run of main
VARIABLES
    main_pc,             \* the position of main
    configs,             \* what chase_api_get(API_CONFIGS) returned
    config_i,            \* the configs the current loop has been through
    overall_success,
    exit_code,           \* the exit status of the process
    fetched,             \* the dependent fetches made, in order
    synced               \* the calls of sync_table made, in order

mainVars == <<main_pc, configs, config_i, overall_success, exit_code, fetched, synced>>

VARIABLES
    del_pc,              \* the position of delete_pipefy_table.py
    argv,                \* sys.argv
    all_record_ids,      \* get_pipefy_table_records of the delete script
    del_page_count,      \* the pages it requested
    confirmation,        \* what input() returned
    delete_mutations,
    del_batch_start,     \* i of the batch loop
    del_all_successful,
    total_deleted,       \* the success indicators counted so far
    del_requests,        \* the requests sent to Pipefy, in order
    del_result,          \* what delete_all_table_records returned
    del_exit             \* the exit status of the process

delVars == <<del_pc, argv, all_record_ids, del_page_count, confirmation,
             delete_mutations, del_batch_start, del_all_successful, total_deleted,
             del_requests, del_result, del_exit>>

VARIABLES
    chase_business_units,  \* the business units the source holds for the config
    business_units         \* what chase_api_get(API_BUSINESS_UNITS) returned

collectVars == <<chase_business_units, business_units>>

vars == <<syncVars, retryVars, sanVars, mainVars, delVars, collectVars>>

\* the variables sync_table and the functions it calls leave alone
otherVars == <<retryVars, sanVars, mainVars, delVars, collectVars>>

max_retries == 3
initial_delay == 5

\* a return value: the kind of python object and what tells it from the
\* other objects of its kind
Value(k, msg) == [k |-> k, msg |-> msg]
Running == Value("running", "")

\* no call of chase_api_get or pipefy_post is under way
RetryIdle ==
    /\ fn = "none"
    /\ decode_error = "none"
    /\ attempt = 0
    /\ delay = initial_delay
    /\ outcomes = <<>>
    /\ sleeps = <<>>
    /\ returned = Running

\* sanitize_graphql_string has not been called
SanIdle ==
    /\ value = VNone
    /\ sanitized = <<>>

\* main is not running
MainIdle ==
    /\ main_pc = "idle"
    /\ configs = [k |-> "pending", v |-> <<>>]
    /\ config_i = 0
    /\ overall_success = "unset"
    /\ exit_code = "running"
    /\ fetched = <<>>
    /\ synced = <<>>

\* delete_pipefy_table.py is not running
DelIdle ==
    /\ del_pc = "idle"
    /\ argv = <<>>
    /\ all_record_ids = <<>>
    /\ del_page_count = 0
    /\ confirmation = "unset"
    /\ delete_mutations = <<>>
    /\ del_batch_start = 0
    /\ del_all_successful = TRUE
    /\ total_deleted = 0
    /\ del_requests = <<>>
    /\ del_result = "running"
    /\ del_exit = "running"

\* main has not fetched the business units
CollectIdle ==
    /\ chase_business_units = <<>>
    /\ business_units = [k |-> "pending", v |-> <<>>, body |-> "none"]

\* sync_table is not running
SyncIdle ==
    /\ pipefy_table_id = BU_AGENCY_TABLE_ID
    /\ chase_data_list = <<>>
    /\ pc = "idle"
    /\ all_records = <<>>
    /\ page_count = 0
    /\ cursor = VNone
    /\ pipefy_data = [k |-> "pending", v |-> <<>>]
    /\ to_create = <<>> /\ to_update = <<>> /\ to_archive = <<>>
    /\ create_mutations = <<>> /\ update_mutations = <<>> /\ archive_mutations = <<>>
    /\ archive_i = 0
    /\ done_phase_ids = <<>>
    /\ DONE_PHASE_CACHE = <<>>
    /\ batch_start = 0
    /\ all_successful = TRUE
    /\ success_c = "unset" /\ success_u = "unset" /\ success_a = "unset"
    /\ response = "unset"
    /\ requests = <<>>
    /\ sent_cursors = <<>>
    /\ pages = <<>>
    /\ submitted = <<>>
    /\ result = "running"

batch_size == 50

field_mapping == FieldMapping(pipefy_table_id)

Init ==
    /\ pipefy_table_id \in Tables
    /\ chase_data_list \in SeqsUpTo(SrcRecords(pipefy_table_id), MaxSrc)
    /\ pc = "fetch"
    /\ all_records = <<>>
    /\ page_count = 0
    /\ cursor = VNone
    /\ pipefy_data = [k |-> "pending", v |-> <<>>]
    /\ to_create = <<>> /\ to_update = <<>> /\ to_archive = <<>>
    /\ create_mutations = <<>> /\ update_mutations = <<>> /\ archive_mutations = <<>>
    /\ archive_i = 0
    /\ done_phase_ids = <<>>
    /\ DONE_PHASE_CACHE = <<>>
    /\ batch_start = 0
    /\ all_successful = TRUE
    /\ success_c = "unset" /\ success_u = "unset" /\ success_a = "unset"
    /\ response = "unset"
    /\ requests = <<>>
    /\ sent_cursors = <<>>
    /\ pages = <<>>
    /\ submitted = <<>>
    /\ result = "running"
    /\ RetryIdle
    /\ SanIdle
    /\ MainIdle
    /\ DelIdle
    /\ CollectIdle

\* RequestCursor leaving the cursor out of every request
RequestCursorNever(c) == Missing

\* lines 212-214: the cursor variable of a page request; a falsy cursor is
\* not sent
RequestCursor(c) == IF Truthy(c) THEN c ELSE Missing

\* pageInfo.endCursor of a served page whose last edge is record number n
EndCursor(edges, n) == IF edges = <<>> THEN VNone ELSE VStr(IntStr(n))

\* what pipefy_post can hand back: a result with 'errors', a falsy result,
\* or a result with data
PostFailures == {"errors", "falsy"}

\* the callers' test "not response or 'errors' in response", negated
ResponseOk(kind) == kind \notin PostFailures

\* FetchFailureValue handing back the records of the earlier pages
FetchFailurePartial(records) == [k |-> "list", v |-> records]

\* the value get_pipefy_table_records returns when a page request failed
FetchFailureValue(records) == [k |-> "none", v |-> <<>>]

\* One iteration of the while loop of get_pipefy_table_records whose page
\* request failed (lines 210-221), and sync_table's return (lines 438-440).
FetchPageFails ==
    /\ pc = "fetch"
    /\ UNCHANGED otherVars
    /\ \E outcome \in PostFailures :
        /\ page_count' = page_count + 1
        /\ requests' = Append(requests, "table_records")
        /\ response' = outcome
        /\ sent_cursors' = Append(sent_cursors, RequestCursor(cursor))
        /\ pipefy_data' = FetchFailureValue(all_records)
        /\ IF pipefy_data'.k = "none"
           THEN pc' = "done" /\ result' = "False"
           ELSE pc' = "classify" /\ result' = result
    /\ UNCHANGED <<pipefy_table_id, chase_data_list, all_records, cursor,
                   to_create, to_update, to_archive, create_mutations,
                   update_mutations, archive_mutations, archive_i,
                   done_phase_ids, DONE_PHASE_CACHE, batch_start, all_successful,
                   success_c, success_u, success_a, pages, submitted>>

\* One iteration of the while loop of get_pipefy_table_records whose page
\* request succeeded (lines 210-244); the last one returns all_records.
FetchPageOk ==
    /\ pc = "fetch"
    /\ UNCHANGED otherVars
    /\ page_count < MaxPages
    /\ \E edges \in SeqsUpTo(DstRows(pipefy_table_id), MaxDst - Len(all_records)),
          has_next_page \in BOOLEAN :
        /\ has_next_page => (page_count + 1 < MaxPages /\ edges # <<>>
                                /\ Len(all_records) + Len(edges) < MaxDst)
        /\ (page_count > 0) => edges # <<>>
        /\ page_count' = page_count + 1
        /\ requests' = Append(requests, "table_records")
        /\ response' = "data"
        /\ sent_cursors' = Append(sent_cursors, RequestCursor(cursor))
        /\ all_records' = all_records \o
              [j \in 1..Len(edges) |-> RecordData(edges[j], Len(all_records) + j)]
        /\ cursor' = EndCursor(edges, Len(all_records'))
        /\ pages' = Append(pages,
              [edges |-> [j \in 1..Len(edges) |->
                            RecordData(edges[j], Len(all_records) + j)],
               endCursor |-> cursor', hasNextPage |-> has_next_page])
        /\ IF has_next_page
           THEN pc' = "fetch" /\ pipefy_data' = pipefy_data
           ELSE pc' = "classify" /\ pipefy_data' = [k |-> "list", v |-> all_records']
    /\ UNCHANGED <<pipefy_table_id, chase_data_list, to_create, to_update,
                   to_archive, create_mutations, update_mutations,
                   archive_mutations, archive_i, done_phase_ids,
                   DONE_PHASE_CACHE, batch_start, all_successful,
                   success_c, success_u, success_a, submitted, result>>

\* chase_map and pipefy_map of lines 460-461
chase_map == KeyMap(chase_data_list, FALSE, pipefy_table_id, field_mapping, <<>>)
pipefy_map == KeyMap(pipefy_data.v, TRUE, pipefy_table_id, field_mapping, <<>>)

\* Lines 442-520 of sync_table: the key maps, the three lists and the create
\* and update fragments.
Classify ==
    /\ pc = "classify"
    /\ UNCHANGED otherVars
    /\ to_create' = ToCreate(chase_map, pipefy_map)
    /\ to_update' = ToUpdate(chase_map, pipefy_map, field_mapping)
    /\ to_archive' = ToArchive(pipefy_map, chase_map)
    /\ create_mutations' =
          build_pipefy_mutations(to_create', 0, pipefy_table_id, "create", field_mapping)
    /\ update_mutations' =
          build_pipefy_mutations(to_update', 0, pipefy_table_id, "update", field_mapping)
    /\ pc' = IF to_archive' = <<>> THEN "exec_create" ELSE "build_archive"
    /\ UNCHANGED <<pipefy_table_id, chase_data_list, all_records, page_count,
                   cursor, pipefy_data, archive_mutations, archive_i, done_phase_ids,
                   DONE_PHASE_CACHE, batch_start, all_successful,
                   success_c, success_u, success_a, response, requests,
                   sent_cursors, pages, submitted, result>>

\* One iteration of the archive branch of build_pipefy_mutations (lines
\* 347-363), get_done_phase_id having returned done_phase_id.
ArchiveIteration(done_phase_id) ==
    LET record == to_archive[archive_i + 1]
    IN /\ IF ~Truthy(Get(record, "pipefy_record_id", VNone))
          THEN archive_mutations' = archive_mutations
          ELSE archive_mutations' = archive_mutations \o
                  BuildArchive(record, archive_i, pipefy_table_id, field_mapping,
                               done_phase_id)
       /\ done_phase_ids' = Append(done_phase_ids, done_phase_id)
       /\ archive_i' = archive_i + 1
       /\ pc' = IF archive_i' = Len(to_archive) THEN "exec_create" ELSE "build_archive"
       /\ UNCHANGED <<pipefy_table_id, chase_data_list, all_records, page_count,
                      cursor, pipefy_data, to_create, to_update, to_archive,
                      create_mutations, update_mutations, batch_start,
                      all_successful, success_c, success_u, success_a, response,
                      sent_cursors, pages, submitted, result>>

\* get_done_phase_id answers from the cache (lines 137-138).
ArchiveCached ==
    /\ pc = "build_archive"
    /\ UNCHANGED otherVars
    /\ pipefy_table_id \in DOMAIN DONE_PHASE_CACHE
    /\ ArchiveIteration(DONE_PHASE_CACHE[pipefy_table_id])
    /\ UNCHANGED <<DONE_PHASE_CACHE, requests>>

\* get_done_phase_id asks for the phases and the request fails (lines 158-162).
ArchiveLookupFails ==
    /\ pc = "build_archive"
    /\ UNCHANGED otherVars
    /\ pipefy_table_id \notin DOMAIN DONE_PHASE_CACHE
    /\ \E outcome \in PostFailures :
        /\ requests' = Append(requests, "phases")
        /\ ArchiveIteration(VNone)
    /\ UNCHANGED DONE_PHASE_CACHE

\* get_done_phase_id asks for the phases and caches what it found (lines 158-181).
ArchiveLookupOk ==
    /\ pc = "build_archive"
    /\ UNCHANGED otherVars
    /\ pipefy_table_id \notin DOMAIN DONE_PHASE_CACHE
    /\ \E phases \in PhaseLists :
        LET found == FindDonePhase(phases)
            done_phase == IF Truthy(found) THEN found ELSE VNone
        IN /\ requests' = Append(requests, "phases")
           /\ DONE_PHASE_CACHE' = (pipefy_table_id :> done_phase) @@ DONE_PHASE_CACHE
           /\ ArchiveIteration(found)

\* what the destination answers to a batch: a failure of pipefy_post, or data
\* in which the fragments at the positions of ok carry a success indicator
BatchResponses(batch) ==
    { [kind |-> f, ok |-> {}] : f \in PostFailures }
    \cup { [kind |-> "data", ok |-> S] :
              S \in {{}, 1..Len(batch)}
                    \cup { 1..Len(batch) \ {j} : j \in 1..Len(batch) } }

\* the answer has no errors and a success indicator for every fragment
CleanAnswer(answer, batch) ==
    /\ answer.kind = "data"
    /\ \A j \in 1..Len(batch) : j \in answer.ok

\* BatchSucceeded looking at the errors only
BatchSucceededUnchecked(answer, batch) == ResponseOk(answer.kind)

\* lines 388-419: the batch leaves all_successful as it is
BatchSucceeded(answer, batch) ==
    /\ ResponseOk(answer.kind)
    /\ Cardinality(answer.ok) = Len(batch)

Min(a, b) == IF a < b THEN a ELSE b

\* Batch losing the last fragment of a full batch
BatchShort(mutations, i) ==
    SubSeq(mutations, i + 1, Min(i + batch_size - 1, Len(mutations)))

\* batch = mutations[i:i+batch_size], line 377
Batch(mutations, i) ==
    SubSeq(mutations, i + 1, Min(i + batch_size, Len(mutations)))

\* a python bool as the variables hold it; "unset" and "running" stand for a
\* local not assigned yet and a call that has not returned
PyBool(b) == IF b THEN "True" ELSE "False"

\* One step of execute_pipefy_mutations(mutations): the return of line 371 when
\* time.sleep(2) of line 424 runs in this iteration: the continue of line 397
\* ends the iteration of a failed batch before it
Paused(answer, i, mutations) ==
    ResponseOk(answer.kind) /\ i + batch_size < Len(mutations)

\* there is nothing to execute, else one iteration of the batch loop (lines
\* 376-424), the last one returning all_successful.  flag is the value the
\* call returns, "unset" while it runs.
ExecuteStep(mutations, kind, flag) ==
    IF mutations = <<>>
    THEN /\ flag = "True"
         /\ UNCHANGED <<requests, batch_start, all_successful, submitted>>
    ELSE \E answer \in BatchResponses(Batch(mutations, batch_start)) :
            LET batch == Batch(mutations, batch_start)
                still == all_successful /\ BatchSucceeded(answer, batch)
            IN /\ requests' = Append(requests, kind)
               /\ submitted' = Append(submitted,
                      [kind |-> kind, batch |-> batch,
                       clean |-> CleanAnswer(answer, batch),
                       paused |-> Paused(answer, batch_start, mutations)])
               /\ IF batch_start + batch_size < Len(mutations)
                  THEN /\ batch_start' = batch_start + batch_size
                       /\ all_successful' = still
                       /\ flag = "unset"
                  ELSE /\ batch_start' = 0
                       /\ all_successful' = TRUE
                       /\ flag = PyBool(still)

\* AfterExecute with the archive execution moved before the update execution
AfterExecuteArchiveFirst(position) ==
    CASE position = "exec_create" -> "exec_archive"
      [] position = "exec_archive" -> "exec_update"
      [] OTHER -> "done"

\* the order of the three executions and the return, lines 523-528
AfterExecute(position) ==
    CASE position = "exec_create" -> "exec_update"
      [] position = "exec_update" -> "exec_archive"
      [] OTHER -> "done"

\* line 528, once the last execution returned
ReturnValue(position, c, u, a) ==
    IF position = "done"
    THEN PyBool(c = "True" /\ u = "True" /\ a = "True")
    ELSE "running"

\* success_c = execute_pipefy_mutations(create_mutations), line 523
ExecuteCreate ==
    /\ pc = "exec_create"
    /\ UNCHANGED otherVars
    /\ ExecuteStep(create_mutations, "create", success_c')
    /\ pc' = IF success_c' = "unset" THEN pc ELSE AfterExecute(pc)
    /\ result' = ReturnValue(pc', success_c', success_u, success_a)
    /\ UNCHANGED <<pipefy_table_id, chase_data_list, all_records, page_count,
                   cursor, pipefy_data, to_create, to_update, to_archive,
                   create_mutations, update_mutations, archive_mutations,
                   archive_i, done_phase_ids, DONE_PHASE_CACHE, response,
                   sent_cursors, pages,
                   success_u, success_a>>

\* success_u = execute_pipefy_mutations(update_mutations), line 524
ExecuteUpdate ==
    /\ pc = "exec_update"
    /\ UNCHANGED otherVars
    /\ ExecuteStep(update_mutations, "update", success_u')
    /\ pc' = IF success_u' = "unset" THEN pc ELSE AfterExecute(pc)
    /\ result' = ReturnValue(pc', success_c, success_u', success_a)
    /\ UNCHANGED <<pipefy_table_id, chase_data_list, all_records, page_count,
                   cursor, pipefy_data, to_create, to_update, to_archive,
                   create_mutations, update_mutations, archive_mutations,
                   archive_i, done_phase_ids, DONE_PHASE_CACHE, response,
                   sent_cursors, pages,
                   success_c, success_a>>

\* success_a = execute_pipefy_mutations(archive_mutations) and the return of
\* sync_table, lines 525-528
ExecuteArchive ==
    /\ pc = "exec_archive"
    /\ UNCHANGED otherVars
    /\ ExecuteStep(archive_mutations, "archive", success_a')
    /\ pc' = IF success_a' = "unset" THEN pc ELSE AfterExecute(pc)
    /\ result' = ReturnValue(pc', success_c, success_u, success_a')
    /\ UNCHANGED <<pipefy_table_id, chase_data_list, all_records, page_count,
                   cursor, pipefy_data, to_create, to_update, to_archive,
                   create_mutations, update_mutations, archive_mutations,
                   archive_i, done_phase_ids, DONE_PHASE_CACHE, response,
                   sent_cursors, pages,
                   success_c, success_u>>

Next ==
    \/ FetchPageFails
    \/ FetchPageOk
    \/ Classify
    \/ ArchiveCached
    \/ ArchiveLookupFails
    \/ ArchiveLookupOk
    \/ ExecuteCreate
    \/ ExecuteUpdate
    \/ ExecuteArchive

Spec == Init /\ [][Next]_vars

\* ------------------------------------- execute_pipefy_mutations on its own
MaxFragments == 101   \* fragments in the list handed to execute_pipefy_mutations

\* a list of n mutation fragments
Fragments(n) ==
    [j \in 1..n |-> Fragment(MutAlias(IntStr(j)), j, "createTableRecord",
                             BU_AGENCY_TABLE_ID, <<>>, <<>>, <<>>)]

\* sync_table at line 523, with a list of any length to execute
InitExecute ==
    /\ pipefy_table_id = BU_AGENCY_TABLE_ID
    /\ chase_data_list = <<>>
    /\ pc = "exec_create"
    /\ all_records = <<>>
    /\ page_count = 1
    /\ cursor = VNone
    /\ pipefy_data = [k |-> "list", v |-> <<>>]
    /\ to_create = <<>> /\ to_update = <<>> /\ to_archive = <<>>
    /\ create_mutations \in { Fragments(n) : n \in 0..MaxFragments }
    /\ update_mutations = <<>> /\ archive_mutations = <<>>
    /\ archive_i = 0
    /\ done_phase_ids = <<>>
    /\ DONE_PHASE_CACHE = <<>>
    /\ batch_start = 0
    /\ all_successful = TRUE
    /\ success_c = "unset" /\ success_u = "unset" /\ success_a = "unset"
    /\ response = "data"
    /\ requests = <<"table_records">>
    /\ sent_cursors = <<Missing>>
    /\ pages = << [edges |-> <<>>, endCursor |-> VNone, hasNextPage |-> FALSE] >>
    /\ submitted = <<>>
    /\ result = "running"
    /\ RetryIdle
    /\ SanIdle
    /\ MainIdle
    /\ DelIdle
    /\ CollectIdle

NextExecute ==
    \/ ExecuteCreate
    \/ ExecuteUpdate
    \/ ExecuteArchive

SpecExecute == InitExecute /\ [][NextExecute]_vars

\* ----------------------------------------- sanitize_graphql_string twice
MaxLen == 3           \* characters in the string handed to sanitize_graphql_string

SanChars == {"a", " ", "\\", "\"", "\n"}

\* the values sanitize_graphql_string is given: None, an int, strings
SanInputs ==
    {VNone, VInt(<<"1", "2">>)}
    \cup { VStr(chars) : chars \in SeqsUpTo(SanChars, MaxLen) }

InitSanitize ==
    /\ value \in SanInputs
    /\ sanitized = <<>>
    /\ SyncIdle
    /\ RetryIdle
    /\ MainIdle
    /\ DelIdle
    /\ CollectIdle

\* sanitize_graphql_string(value), then sanitize_graphql_string of the result
Sanitize ==
    /\ Len(sanitized) < 2
    /\ sanitized' = Append(sanitized,
          sanitize_graphql_string(IF sanitized = <<>> THEN value
                                  ELSE VStr(sanitized[Len(sanitized)])))
    /\ UNCHANGED <<value, syncVars, retryVars, mainVars, delVars, collectVars>>

NextSanitize == Sanitize

SpecSanitize == InitSanitize /\ [][NextSanitize]_vars

\* -------------------------------------------------------------------- main
MaxConfigs == 2       \* configs in the list of configs
MaxClients == 1       \* clients of one config

\* ConfigID (as a string) to product table, in the order of the dict
AGENCY_PRODUCT_TABLE_MAP ==
    << << <<"1">>, "306766430" >>,
       << <<"6">>, PRODUCT_TABLE_ID >>,
       << <<"7">>, "306759851" >>,
       << <<"8">>, "306766722" >>,
       << <<"9">>, "306759853" >> >>

\* config.get("ConfigID"): a config with a product table, one without, and
\* a config without ConfigID
ConfigIds == {VInt(<<"6">>), VInt(<<"2">>), VNone}

\* what chase_api_get hands back: a list, None, or JSON that is not a list
FetchKinds == {"list", "None", "nonlist"}

\* isinstance(x, list) holding of every value
IsListAlways(kind) == TRUE

\* isinstance(x, list)
IsList(kind) == kind = "list"

InitMain ==
    /\ main_pc = "start"
    /\ configs = [k |-> "pending", v |-> <<>>]
    /\ config_i = 0
    /\ overall_success = "unset"
    /\ exit_code = "running"
    /\ fetched = <<>>
    /\ synced = <<>>
    /\ SyncIdle
    /\ RetryIdle
    /\ SanIdle
    /\ DelIdle
    /\ CollectIdle

\* lines 564-568: the configs, or sys.exit(1)
MainFetchConfigs ==
    /\ main_pc = "start"
    /\ \E kind \in FetchKinds, ids \in SeqsUpTo(ConfigIds, MaxConfigs) :
        /\ IsList(kind) \/ ids = <<>>
        /\ configs' = [k |-> kind, v |-> ids]
        /\ IF configs'.k = "None" \/ ~IsList(configs'.k)
           THEN main_pc' = "exit" /\ exit_code' = "1"
           ELSE main_pc' = "client_map" /\ exit_code' = exit_code
    /\ UNCHANGED <<config_i, overall_success, fetched, synced,
                   syncVars, retryVars, sanVars, delVars, collectVars>>

\* a dependent fetch as the log holds it
Fetch(endpoint, phase, config_id, kind) ==
    [endpoint |-> endpoint, phase |-> phase, config_id |-> config_id,
     ok |-> IsList(kind)]

\* one iteration of the loop that builds client_id_to_name_map (lines 572-580)
ClientMapIteration ==
    /\ main_pc = "client_map"
    /\ config_i < Len(configs.v)
    /\ LET config_id == configs.v[config_i + 1]
       IN IF ~Truthy(config_id)
          THEN fetched' = fetched
          ELSE \E kind \in FetchKinds :
                  fetched' = Append(fetched,
                                Fetch("clients", "client_map", config_id, kind))
    /\ config_i' = config_i + 1
    /\ UNCHANGED <<main_pc, configs, overall_success, exit_code, synced,
                   syncVars, retryVars, sanVars, delVars, collectVars>>

\* lines 581-586: the lists are set up and overall_success = True
ClientMapDone ==
    /\ main_pc = "client_map"
    /\ config_i = Len(configs.v)
    /\ main_pc' = "collect"
    /\ config_i' = 0
    /\ overall_success' = "True"
    /\ UNCHANGED <<configs, exit_code, fetched, synced,
                   syncVars, retryVars, sanVars, delVars, collectVars>>

\* the fetches of one iteration of the loop of line 588: business units,
\* divisions and, for a config of AGENCY_PRODUCT_TABLE_MAP, the clients and
\* the products of each client
CollectFetches(config_id, bu, div, clients, products) ==
    << Fetch("business_units", "collect", config_id, bu),
       Fetch("divisions", "collect", config_id, div) >>
    \o (IF ~DictHas(AGENCY_PRODUCT_TABLE_MAP, PyStr(config_id)) THEN <<>>
        ELSE << Fetch("clients", "collect", config_id, clients) >>
             \o (IF ~IsList(clients) THEN <<>>
                 ELSE [j \in 1..Len(products) |->
                         Fetch("products", "collect", config_id, products[j])]))

\* "overall_success = False" of the else branches of lines 610-674
AfterFetches(overall, entries) ==
    IF \A j \in 1..Len(entries) : entries[j].ok THEN overall ELSE "False"

\* one iteration of the loop of line 588 (lines 589-674)
CollectIteration ==
    /\ main_pc = "collect"
    /\ config_i < Len(configs.v)
    /\ LET config_id == configs.v[config_i + 1]
       IN IF ~Truthy(config_id)
          THEN UNCHANGED <<fetched, overall_success>>
          ELSE \E bu \in FetchKinds, div \in FetchKinds, clients \in FetchKinds,
                  products \in SeqsUpTo(FetchKinds, MaxClients) :
                  LET entries == CollectFetches(config_id, bu, div, clients, products)
                  IN /\ fetched' = fetched \o entries
                     /\ overall_success' = AfterFetches(overall_success, entries)
    /\ config_i' = config_i + 1
    /\ UNCHANGED <<main_pc, configs, exit_code, synced,
                   syncVars, retryVars, sanVars, delVars, collectVars>>

\* what sync_table returns, given whether the destination fetch succeeded and
\* what the three calls of execute_pipefy_mutations returned (lines 437-440
\* and 523-528)
SyncTableResult(fetch_ok, c, u, a) ==
    IF ~fetch_ok /\ FetchFailureValue(<<>>).k = "none" THEN "False"
    ELSE ReturnValue("done", PyBool(c), PyBool(u), PyBool(a))

\* Downgrade leaving overall_success as it is
DowngradeNever(overall, success) == overall

\* "if not success: overall_success = False", lines 679-680, 685-686, 694-695
Downgrade(overall, success) == IF success = "True" THEN overall ELSE "False"

\* a call of sync_table for table_id and the test of what it returned
SyncTableCall(table_id) ==
    \E fetch_ok \in BOOLEAN, c \in BOOLEAN, u \in BOOLEAN, a \in BOOLEAN :
        /\ synced' = Append(synced,
              [table_id |-> table_id, clean |-> fetch_ok /\ c /\ u /\ a])
        /\ overall_success' =
              Downgrade(overall_success, SyncTableResult(fetch_ok, c, u, a))

\* lines 676-680
SyncBusinessUnits ==
    /\ main_pc = "collect"
    /\ config_i = Len(configs.v)
    /\ SyncTableCall(BU_AGENCY_TABLE_ID)
    /\ main_pc' = "sync_div"
    /\ UNCHANGED <<configs, config_i, exit_code, fetched,
                   syncVars, retryVars, sanVars, delVars, collectVars>>

\* SyncDivisions leaving the table out once an earlier step has failed
SyncDivisionsUnlessFailed ==
    /\ main_pc = "sync_div"
    /\ IF overall_success = "False"
       THEN UNCHANGED <<synced, overall_success>>
       ELSE SyncTableCall(DIVISIONS_TABLE_ID)
    /\ main_pc' = "sync_prod"
    /\ config_i' = 0
    /\ UNCHANGED <<configs, exit_code, fetched, syncVars, retryVars, sanVars, delVars, collectVars>>

\* lines 682-686
SyncDivisions ==
    /\ main_pc = "sync_div"
    /\ SyncTableCall(DIVISIONS_TABLE_ID)
    /\ main_pc' = "sync_prod"
    /\ config_i' = 0
    /\ UNCHANGED <<configs, exit_code, fetched, syncVars, retryVars, sanVars, delVars, collectVars>>

\* one iteration of the loop of line 689 (lines 690-698); every entry of
\* AGENCY_PRODUCT_TABLE_MAP has a table id
SyncProducts ==
    /\ main_pc = "sync_prod"
    /\ config_i < Len(AGENCY_PRODUCT_TABLE_MAP)
    /\ SyncTableCall(AGENCY_PRODUCT_TABLE_MAP[config_i + 1][2])
    /\ config_i' = config_i + 1
    /\ UNCHANGED <<main_pc, configs, exit_code, fetched,
                   syncVars, retryVars, sanVars, delVars, collectVars>>

\* the exit status of lines 700-704
ExitCode(overall) == IF overall = "True" THEN "0" ELSE "1"

\* lines 700-704
MainExit ==
    /\ main_pc = "sync_prod"
    /\ config_i = Len(AGENCY_PRODUCT_TABLE_MAP)
    /\ exit_code' = ExitCode(overall_success)
    /\ main_pc' = "exit"
    /\ UNCHANGED <<configs, config_i, overall_success, fetched, synced,
                   syncVars, retryVars, sanVars, delVars, collectVars>>

NextMain ==
    \/ MainFetchConfigs
    \/ ClientMapIteration
    \/ ClientMapDone
    \/ CollectIteration
    \/ SyncBusinessUnits
    \/ SyncDivisions
    \/ SyncProducts
    \/ MainExit

SpecMain == InitMain /\ [][NextMain]_vars

\* ------------------------------------------- chase_api_get and pipefy_post
\* What one attempt can meet: a 2xx answer with a JSON body ("ok"; for
\* pipefy_post a body without 'errors'), a 2xx JSON body with 'errors', a 2xx
\* answer with no content, a 2xx answer whose body is not JSON, a timeout, a
\* 5xx or 429 or 4xx status, a network error without a response.
Retryable == {"timeout", "http_5xx", "http_429", "network"}
Outcomes(f) ==
    Retryable \cup {"ok", "empty", "nonjson", "http_4xx"}
    \cup (IF f = "pipefy_post" THEN {"graphql_errors"} ELSE {})

\* The exception class of a failed response.json(): json.JSONDecodeError
\* itself, or the requests.exceptions.JSONDecodeError of requests 2.27 and
\* later, which is also a RequestException and carries no response.
DecodeErrors == {"json.JSONDecodeError", "requests.JSONDecodeError"}

\* the except clause an attempt ends in ("none": no exception); the clauses
\* are tried in the order Timeout, RequestException, JSONDecodeError
Caught(f, cls, o) ==
    LET undecodable == o = "nonjson" \/ (o = "empty" /\ f = "pipefy_post")
    IN CASE o = "timeout" -> "Timeout"
         [] o \in {"http_5xx", "http_429", "http_4xx", "network"} -> "RequestException"
         [] undecodable /\ cls = "requests.JSONDecodeError" -> "RequestException"
         [] undecodable -> "JSONDecodeError"
         [] OTHER -> "none"

\* e.response is not None and 400 <= status < 500 and status != 429
IsClientError(o) == o = "http_4xx"

\* the values of the return statements
ReturnOnSuccess(f, o) ==
    IF f = "chase_api_get" /\ o = "empty" THEN Value("list", "") ELSE Value("body", o)
ReturnOnClientError(f) ==
    IF f = "chase_api_get" THEN Value("None", "")
    ELSE Value("errors", "Pipefy Client Error")
ReturnOnMalformed(f) ==
    IF f = "chase_api_get" THEN Value("None", "")
    ELSE Value("errors", "Pipefy returned non-JSON response")
ReturnOnExhausted(f) ==
    IF f = "chase_api_get" THEN Value("None", "")
    ELSE Value("errors", "Pipefy API call failed after multiple retries")

\* delay *= 2 without the doubling
NextDelaySame(d) == d

\* delay *= 2
NextDelay(d) == d * 2

\* the end of the loop body (lines 88-93 and 128-133): sleep and go on, or
\* give up after the last attempt
EndOfAttempt ==
    IF attempt < max_retries - 1
    THEN /\ sleeps' = Append(sleeps, delay)
         /\ delay' = NextDelay(delay)
         /\ attempt' = attempt + 1
         /\ returned' = returned
    ELSE /\ returned' = ReturnOnExhausted(fn)
         /\ UNCHANGED <<sleeps, delay, attempt>>

Return(v) ==
    /\ returned' = v
    /\ UNCHANGED <<sleeps, delay, attempt>>

\* one iteration of the for loop of chase_api_get (lines 69-93)
ChaseAttempt ==
    /\ fn = "chase_api_get"
    /\ returned = Running
    /\ \E o \in Outcomes(fn) :
        /\ outcomes' = Append(outcomes, o)
        /\ CASE Caught(fn, decode_error, o) = "none" -> Return(ReturnOnSuccess(fn, o))
             [] Caught(fn, decode_error, o) = "Timeout" -> EndOfAttempt
             [] Caught(fn, decode_error, o) = "RequestException" ->
                    IF IsClientError(o) THEN Return(ReturnOnClientError(fn))
                    ELSE EndOfAttempt
             [] OTHER -> Return(ReturnOnMalformed(fn))
    /\ UNCHANGED <<fn, decode_error, syncVars, sanVars, mainVars, delVars, collectVars>>

\* one iteration of the for loop of pipefy_post (lines 99-133)
PipefyAttempt ==
    /\ fn = "pipefy_post"
    /\ returned = Running
    /\ \E o \in Outcomes(fn) :
        /\ outcomes' = Append(outcomes, o)
        /\ CASE Caught(fn, decode_error, o) = "none" ->
                    IF o = "graphql_errors" /\ attempt # max_retries - 1
                    THEN EndOfAttempt
                    ELSE Return(ReturnOnSuccess(fn, o))
             [] Caught(fn, decode_error, o) = "Timeout" -> EndOfAttempt
             [] Caught(fn, decode_error, o) = "RequestException" ->
                    IF IsClientError(o) THEN Return(ReturnOnClientError(fn))
                    ELSE EndOfAttempt
             [] OTHER -> Return(ReturnOnMalformed(fn))
    /\ UNCHANGED <<fn, decode_error, syncVars, sanVars, mainVars, delVars, collectVars>>

\* a call of either function, on either build of the requests library
InitRetry ==
    /\ fn \in {"chase_api_get", "pipefy_post"}
    /\ decode_error \in DecodeErrors
    /\ attempt = 0
    /\ delay = initial_delay
    /\ outcomes = <<>>
    /\ sleeps = <<>>
    /\ returned = Running
    /\ SyncIdle
    /\ SanIdle
    /\ MainIdle
    /\ DelIdle
    /\ CollectIdle

NextRetry ==
    \/ ChaseAttempt
    \/ PipefyAttempt

\* the loop runs on until the call returns
SpecRetry == InitRetry /\ [][NextRetry]_vars /\ WF_vars(NextRetry)

\* =================================================================== claims
\* Vocabulary of the claims, stated on sync_table's inputs and outputs.
SrcKey(r) == get_key(r, FALSE, pipefy_table_id, field_mapping)
DstKey(r) == get_key(r, TRUE, pipefy_table_id, field_mapping)
SrcKeys == { SrcKey(chase_data_list[n]) : n \in 1..Len(chase_data_list) }
DstKeys == { DstKey(pipefy_data.v[n]) : n \in 1..Len(pipefy_data.v) }

\* the entry of a key in the source map and in the destination map: the last
\* record of the list that has the key
LastSrc(K) ==
    chase_data_list[CHOOSE n \in 1..Len(chase_data_list) :
        /\ SrcKey(chase_data_list[n]) = K
        /\ \A m \in (n + 1)..Len(chase_data_list) : SrcKey(chase_data_list[m]) # K]
LastDst(K) ==
    pipefy_data.v[CHOOSE n \in 1..Len(pipefy_data.v) :
        /\ DstKey(pipefy_data.v[n]) = K
        /\ \A m \in (n + 1)..Len(pipefy_data.v) : DstKey(pipefy_data.v[m]) # K]

\* sync_table got its snapshot and has classified the records
Classified == pipefy_data.k = "list" /\ pc \notin {"fetch", "classify"}

Count(seq, x) == Cardinality({ j \in 1..Len(seq) : seq[j] = x })
CreateKeys == { SrcKey(to_create[j]) : j \in 1..Len(to_create) }
UpdateKeys == { SrcKey(to_update[j]) : j \in 1..Len(to_update) }
ArchiveKeys == { DstKey(to_archive[j]) : j \in 1..Len(to_archive) }
AllMutations == create_mutations \o update_mutations \o archive_mutations

\* the fragments of a list that address the destination record id with op
FragsFor(mutations, id, op) ==
    { j \in 1..Len(mutations) :
        mutations[j].op = op /\ mutations[j].record_id = PyStr(id) }
UpdatesOf(p) ==
    { j \in 1..Len(to_update) : to_update[j]["pipefy_record_id"] = p["pipefy_record_id"] }

\* the mapped fields that are neither key nor title attributes
PlainFields ==
    { j \in 1..Len(field_mapping.fields) :
        /\ ~InSeq(field_mapping.fields[j][1], field_mapping.keys)
        /\ ~InSeq(field_mapping.fields[j][1], title_keys) }
\* the mapped fields that are not key attributes
NonKeyFields ==
    { j \in 1..Len(field_mapping.fields) :
        ~InSeq(field_mapping.fields[j][1], field_mapping.keys) }
\* the sanitized source value of mapped field j equals the normalized
\* destination value
FieldSame(c, p, j) ==
    sanitize_graphql_string(Get(c, field_mapping.fields[j][1], VNone))
        = NormalizePipefyVal(p, field_mapping.fields[j][2])
TitleSame(c, p) == VStr(DeriveTitle(c)) = Get(p, "title", VStr(<<>>))
DstActive(p) == "status" \in DOMAIN p /\ p["status"] = VStr(ACTIVE)
DstArchived(p) == "status" \in DOMAIN p /\ p["status"] = VStr(ARCHIVED)

\* C1 (as claimed): every source record whose identity key is absent from the
\* destination key map is in to_create exactly once and in neither to_update
\* nor to_archive, and no key is classified under two of the three lists.
C1_EverySourceRecordCreatedOnce ==
    Classified =>
        /\ \A n \in 1..Len(chase_data_list) :
              SrcKey(chase_data_list[n]) \notin DstKeys =>
                /\ Count(to_create, chase_data_list[n]) = 1
                /\ SrcKey(chase_data_list[n]) \notin UpdateKeys \cup ArchiveKeys
        /\ CreateKeys \cap UpdateKeys = {}
        /\ CreateKeys \cap ArchiveKeys = {}
        /\ UpdateKeys \cap ArchiveKeys = {}

\* C1 (amended): every identity key of the source list that is absent from the
\* destination key map has exactly one record in to_create, the last source
\* record with that key, and none in to_update or to_archive; to_create holds
\* nothing else, and no key is classified under two of the three lists.
C1_EverySourceKeyCreatedOnce ==
    Classified =>
        /\ \A K \in SrcKeys \ DstKeys :
              /\ Cardinality({ j \in 1..Len(to_create) : SrcKey(to_create[j]) = K }) = 1
              /\ Count(to_create, LastSrc(K)) = 1
              /\ K \notin UpdateKeys \cup ArchiveKeys
        /\ CreateKeys \subseteq SrcKeys \ DstKeys
        /\ CreateKeys \cap UpdateKeys = {}
        /\ CreateKeys \cap ArchiveKeys = {}
        /\ UpdateKeys \cap ArchiveKeys = {}

\* two different source records share a key the destination does not have
C1_Witness ==
    /\ Classified
    /\ \E m, n \in 1..Len(chase_data_list) :
          /\ m < n
          /\ chase_data_list[m] # chase_data_list[n]
          /\ SrcKey(chase_data_list[m]) = SrcKey(chase_data_list[n])
          /\ SrcKey(chase_data_list[n]) \notin DstKeys
          /\ Count(to_create, chase_data_list[n]) = 1

\* every declared key attribute is in the record with a non-empty value
AllKeysPresent(record) ==
    \A j \in 1..Len(field_mapping.keys) :
        /\ field_mapping.keys[j] \in DOMAIN record
        /\ record[field_mapping.keys[j]] # VNone
        /\ PyStr(record[field_mapping.keys[j]]) # <<>>

\* C2 (as claimed): the create action emits a createTableRecord fragment for a
\* record if and only if every declared key attribute is present in it with a
\* non-empty value; a record with a missing, null or empty key is skipped.
C2_CreateIffAllKeysPresent ==
    Classified =>
        \A i \in 0..(Len(to_create) - 1) :
            (\E j \in 1..Len(create_mutations) :
                create_mutations[j].i = i /\ create_mutations[j].op = "createTableRecord")
            <=> AllKeysPresent(to_create[i + 1])

\* C3: a record in both maps whose non-key mapped fields are identical after
\* sanitization/normalization, whose derived title is the destination title
\* and whose destination status is 'Active' is put in no list, and no fragment
\* is built for it.
C3_NoOpWhenIdentical ==
    Classified =>
        \A K \in SrcKeys \cap DstKeys :
            LET c == LastSrc(K)
                p == LastDst(K)
            IN (/\ \A j \in NonKeyFields : FieldSame(c, p, j)
                /\ TitleSame(c, p)
                /\ DstActive(p))
               => /\ K \notin CreateKeys \cup UpdateKeys \cup ArchiveKeys
                  /\ UpdatesOf(p) = {}
                  /\ \A j \in 1..Len(to_archive) : to_archive[j] # p
                  /\ \A j \in 1..Len(AllMutations) :
                        AllMutations[j].record_id # PyStr(p["pipefy_record_id"])

\* an identical pair whose source name differs from the destination's only by
\* whitespace, in a pass that has run to its end
C3_Witness ==
    /\ Classified
    /\ pc = "done"
    /\ \E K \in SrcKeys \cap DstKeys :
          /\ \A j \in NonKeyFields : FieldSame(LastSrc(K), LastDst(K), j)
          /\ TitleSame(LastSrc(K), LastDst(K))
          /\ DstActive(LastDst(K))
          /\ \E j \in NonKeyFields :
                Get(LastSrc(K), field_mapping.fields[j][1], VNone)
                    # Get(LastDst(K), field_mapping.fields[j][2], VNone)

InToArchive(d) == \E j \in 1..Len(to_archive) : to_archive[j] = d

\* C4 (as claimed): every destination record is in to_archive if and only if
\* its key is absent from the source key map and its status is not 'Archived'.
C4_EveryDestinationRecordArchived ==
    Classified =>
        \A n \in 1..Len(pipefy_data.v) :
            InToArchive(pipefy_data.v[n])
            <=> (/\ DstKey(pipefy_data.v[n]) \notin SrcKeys
                 /\ ~DstArchived(pipefy_data.v[n]))

\* C4 (amended): a destination record that is the entry of its key in the
\* destination map (the last fetched record with that key) is in to_archive,
\* once, if and only if its key is absent from the source key map and its
\* status is not 'Archived'; a record shadowed by a later record with the same
\* key is never in to_archive; a destination-only record that is already
\* 'Archived' gets no fragment; a record whose key is in the source map is
\* never archived.
C4_DestinationMapEntryArchived ==
    Classified =>
        \A n \in 1..Len(pipefy_data.v) :
            LET d == pipefy_data.v[n]
                entry == d = LastDst(DstKey(d))
            IN /\ entry =>
                    (InToArchive(d) <=> (DstKey(d) \notin SrcKeys /\ ~DstArchived(d)))
               /\ ~entry => ~InToArchive(d)
               /\ Count(to_archive, d) <= 1
               /\ DstKey(d) \in SrcKeys => ~InToArchive(d)
               /\ (DstKey(d) \notin SrcKeys /\ DstArchived(d) /\ pc = "done") =>
                    \A j \in 1..Len(AllMutations) :
                        AllMutations[j].record_id # PyStr(d["pipefy_record_id"])

\* two destination records share a key the source does not have, neither is
\* archived yet, and the pass archived the later one
C4_Witness ==
    /\ Classified
    /\ pc = "done"
    /\ \E m, n \in 1..Len(pipefy_data.v) :
          /\ m < n
          /\ DstKey(pipefy_data.v[m]) = DstKey(pipefy_data.v[n])
          /\ DstKey(pipefy_data.v[n]) \notin SrcKeys
          /\ ~DstArchived(pipefy_data.v[m])
          /\ ~DstArchived(pipefy_data.v[n])
          /\ InToArchive(pipefy_data.v[n])
          /\ ~InToArchive(pipefy_data.v[m])

\* C5 (as claimed): when only the title-deriving field of a matched record
\* differs (the other mapped fields equal, destination status 'Active'), the
\* update consists of no updateFieldsValues fragment and exactly one
\* updateTableRecord fragment.
C5_TitleOnlyChangeGivesOnlyTitleFragment ==
    Classified =>
        \A K \in SrcKeys \cap DstKeys :
            LET c == LastSrc(K)
                p == LastDst(K)
            IN (/\ \A j \in PlainFields : FieldSame(c, p, j)
                /\ DstActive(p)
                /\ DeriveTitle(c) # <<>>
                /\ ~TitleSame(c, p))
               => /\ FragsFor(update_mutations, p["pipefy_record_id"],
                              "updateFieldsValues") = {}
                  /\ Cardinality(FragsFor(update_mutations, p["pipefy_record_id"],
                                          "updateTableRecord")) = 1

\* C6: when exactly one non-key, non-title mapped field of a matched record
\* differs (title equal, destination status 'Active'), the record is
\* classified UPDATE and gets exactly one updateFieldsValues fragment and no
\* updateTableRecord fragment.
C6_OneFieldChangeGivesOneFieldFragment ==
    Classified =>
        \A K \in SrcKeys \cap DstKeys :
            LET c == LastSrc(K)
                p == LastDst(K)
            IN (/\ Cardinality({ j \in PlainFields : ~FieldSame(c, p, j) }) = 1
                /\ TitleSame(c, p)
                /\ DstActive(p))
               => /\ Cardinality(UpdatesOf(p)) = 1
                  /\ K \notin CreateKeys \cup ArchiveKeys
                  /\ Cardinality(FragsFor(update_mutations, p["pipefy_record_id"],
                                          "updateFieldsValues")) = 1
                  /\ FragsFor(update_mutations, p["pipefy_record_id"],
                              "updateTableRecord") = {}
                  /\ \A j \in FragsFor(update_mutations, p["pipefy_record_id"],
                                       "updateFieldsValues") :
                        \E f \in PlainFields :
                            /\ ~FieldSame(c, p, f)
                            /\ InSeq(<<field_mapping.fields[f][2],
                                       sanitize_graphql_string(
                                          Get(c, field_mapping.fields[f][1], VNone))>>,
                                     update_mutations[j].values)

\* a matched pair with exactly one plain field changed, in a finished pass
C6_Witness ==
    /\ Classified
    /\ pc = "done"
    /\ \E K \in SrcKeys \cap DstKeys :
          /\ Cardinality({ j \in PlainFields :
                             ~FieldSame(LastSrc(K), LastDst(K), j) }) = 1
          /\ TitleSame(LastSrc(K), LastDst(K))
          /\ DstActive(LastDst(K))
          /\ Cardinality(FragsFor(update_mutations, LastDst(K)["pipefy_record_id"],
                                  "updateFieldsValues")) = 1

\* C7: a record in both maps whose destination status is not 'Active' is
\* classified UPDATE even when fields and title match; its payload carries the
\* destination record id, the fetched title as current_title and status
\* 'Active', and its updateFieldsValues fragment sets status to 'Active'.
C7_InactiveIsReactivated ==
    Classified =>
        \A K \in SrcKeys \cap DstKeys :
            LET c == LastSrc(K)
                p == LastDst(K)
            IN ~DstActive(p) =>
                /\ Cardinality(UpdatesOf(p)) = 1
                /\ K \notin CreateKeys \cup ArchiveKeys
                /\ \A j \in UpdatesOf(p) :
                      /\ to_update[j]["current_title"] = Get(p, "title", VStr(<<>>))
                      /\ to_update[j]["status"] = VStr(ACTIVE)
                      /\ \A k \in DOMAIN c \ {"status"} : to_update[j][k] = c[k]
                /\ Cardinality(FragsFor(update_mutations, p["pipefy_record_id"],
                                        "updateFieldsValues")) = 1
                /\ \A j \in FragsFor(update_mutations, p["pipefy_record_id"],
                                     "updateFieldsValues") :
                      InSeq(<<"status", ACTIVE>>, update_mutations[j].values)

\* a matched pair equal in every field and in title whose destination record
\* has no status, updated by a finished pass
C7_Witness ==
    /\ Classified
    /\ pc = "done"
    /\ \E K \in SrcKeys \cap DstKeys :
          /\ \A j \in NonKeyFields : FieldSame(LastSrc(K), LastDst(K), j)
          /\ TitleSame(LastSrc(K), LastDst(K))
          /\ "status" \notin DOMAIN LastDst(K)
          /\ UpdatesOf(LastDst(K)) # {}

\* C8: every record of to_archive that has a record id gets exactly one
\* fragment: a phase transition to the id get_done_phase_id returned, or, when
\* it returned none (no Done phase, or the lookup failed), the status fallback.
C8_ArchiveFragmentFollowsPhase ==
    /\ Len(done_phase_ids) = archive_i
    /\ Len(archive_mutations) =
          Cardinality({ j \in 1..archive_i : Truthy(to_archive[j]["pipefy_record_id"]) })
    /\ (Classified /\ pc # "build_archive") => archive_i = Len(to_archive)
    /\ \A j \in 1..archive_i :
          Truthy(to_archive[j]["pipefy_record_id"]) =>
            /\ Cardinality({ f \in 1..Len(archive_mutations) :
                               archive_mutations[f].i = j - 1 }) = 1
            /\ \A f \in 1..Len(archive_mutations) :
                  archive_mutations[f].i = j - 1 =>
                    /\ archive_mutations[f].record_id
                          = PyStr(to_archive[j]["pipefy_record_id"])
                    /\ IF done_phase_ids[j] # VNone
                       THEN /\ archive_mutations[f].op = "updateTableRecordField"
                            /\ archive_mutations[f].values =
                                  << <<"current_phase", PyStr(done_phase_ids[j])>> >>
                       ELSE /\ archive_mutations[f].op = "updateFieldsValues"
                            /\ archive_mutations[f].values = << <<"status", ARCHIVED>> >>

\* two records archived in one pass: the first by the status fallback after a
\* failed phase lookup, the second by a phase transition
C8_Witness ==
    /\ pc = "done"
    /\ Len(archive_mutations) = 2
    /\ Cardinality({ j \in 1..Len(requests) : requests[j] = "phases" }) = 2
    /\ archive_mutations[1].op = "updateFieldsValues"
    /\ archive_mutations[2].op = "updateTableRecordField"

MutationOps == {"create", "update", "archive"}

\* C9: the snapshot fetch is complete before any mutation is submitted, every
\* create batch is submitted before any update batch and every update batch
\* before any archive batch, and the classification is the one of the snapshot
\* taken before the first mutation.
C9_FetchThenCreateUpdateArchive ==
    /\ \A i, j \in 1..Len(requests) :
          i < j =>
            /\ requests[i] \in MutationOps => requests[j] # "table_records"
            /\ requests[i] = "update" => requests[j] # "create"
            /\ requests[i] = "archive" => requests[j] \notin {"create", "update"}
    /\ (\E i \in 1..Len(requests) : requests[i] \in MutationOps) =>
          /\ pipefy_data = [k |-> "list", v |-> all_records]
          /\ ResponseOk(response)
          /\ CreateKeys = SrcKeys \ DstKeys
          /\ UpdateKeys \subseteq SrcKeys \cap DstKeys
          /\ ArchiveKeys \subseteq DstKeys \ SrcKeys

\* a pass that fetched two pages and submitted a create, an update and an
\* archive batch
C9_Witness ==
    /\ pc = "done"
    /\ page_count = 2
    /\ \A op \in MutationOps : \E i \in 1..Len(requests) : requests[i] = op

\* C10: when a page request fails the fetch returns None, not the records of
\* the earlier pages, and sync_table returns False without classifying,
\* resolving the terminal phase or submitting a mutation.
C10_FailedPageAbortsSync ==
    (response \in PostFailures) =>
            /\ \A i \in 1..Len(requests) : requests[i] = "table_records"
            /\ Len(requests) = page_count
            /\ pipefy_data = [k |-> "none", v |-> <<>>]
            /\ pc = "done"
            /\ result = "False"
            /\ to_create = <<>> /\ to_update = <<>> /\ to_archive = <<>>
            /\ AllMutations = <<>>
            /\ done_phase_ids = <<>>
            /\ DOMAIN DONE_PHASE_CACHE = {}

\* the second page request failed after the first page brought records
C10_Witness ==
    /\ requests = <<"table_records", "table_records">>
    /\ response \in PostFailures
    /\ all_records # <<>>
    /\ result = "False"

\* the records of the pages ps, in page order
RECURSIVE PageRecords(_)
PageRecords(ps) ==
    IF ps = <<>> THEN <<>> ELSE Head(ps).edges \o PageRecords(Tail(ps))

PageRequests == { j \in 1..Len(requests) : requests[j] = "table_records" }

\* C11: when every page request succeeded and the destination served the
\* pages P1..Pk, hasNextPage being true on P1..P(k-1) and false on Pk,
\* get_pipefy_table_records has sent exactly k page requests, the first
\* without a cursor and each later one with the endCursor of the page before
\* it, and returns the records of P1..Pk concatenated in page order.
C11_PaginationAccumulatesAllPages ==
    (pc # "fetch" /\ response = "data")
        => /\ pages # <<>>
           /\ \A j \in 1..Len(pages) : pages[j].hasNextPage <=> (j < Len(pages))
           /\ Cardinality(PageRequests) = Len(pages)
           /\ page_count = Len(pages)
           /\ Len(sent_cursors) = Len(pages)
           /\ sent_cursors[1] = Missing
           /\ \A j \in 2..Len(pages) : sent_cursors[j] = pages[j - 1].endCursor
           /\ pipefy_data = [k |-> "list", v |-> PageRecords(pages)]

\* two pages were served and the fetch returned the records of both
C11_Witness ==
    /\ pc # "fetch" /\ response = "data"
    /\ Len(pages) = 2
    /\ pages[1].edges # <<>> /\ pages[2].edges # <<>>
    /\ Len(pipefy_data.v) = 2

\* Vocabulary of the claims on chase_api_get and pipefy_post.
LastOutcome == outcomes[Len(outcomes)]
NumRetryable == Cardinality({ j \in 1..Len(outcomes) : outcomes[j] \in Retryable })

\* every attempt so far met a retryable outcome, but the last one, which may
\* have succeeded
RetryableRun ==
    \A j \in 1..Len(outcomes) :
        outcomes[j] \in Retryable \/ (j = Len(outcomes) /\ outcomes[j] = "ok")

HasReturned == returned # Running

C12_Schedule ==
    RetryableRun
        => /\ Len(outcomes) <= 3
           /\ sleeps = SubSeq(<<5, 10>>, 1, Min(NumRetryable, 2))
           /\ HasReturned <=>
                 (outcomes # <<>> /\ (LastOutcome = "ok" \/ Len(outcomes) = 3))
           /\ (outcomes # <<>> /\ LastOutcome = "ok")
                 => returned = Value("body", "ok")
           /\ (HasReturned /\ LastOutcome # "ok") => returned = ReturnOnExhausted(fn)

\* C12: in a call of chase_api_get or pipefy_post whose attempts meet only
\* retryable outcomes (timeout, 5xx, 429, network error) until one succeeds,
\* there are at most 3 attempts, the sleeps are 5s after the first failed
\* attempt and 10s after the second and none after the third, the first
\* successful attempt ends the call with its result, and the call always
\* returns.
C12_RetryBackoffTerminates == []C12_Schedule /\ <>HasReturned

\* two timeouts, sleeps of 5s and 10s, then the successful result
C12_Witness ==
    /\ outcomes = <<"timeout", "timeout", "ok">>
    /\ sleeps = <<5, 10>>
    /\ returned = Value("body", "ok")

\* C13: an attempt that meets a 4xx status other than 429, or a body that is
\* not JSON, is the last attempt of the call: the call returns a failure at
\* once, with no sleep after that attempt, whatever the attempt number.
C13_NoRetryOnClientErrorOrMalformed ==
    \A j \in 1..Len(outcomes) :
        outcomes[j] \in {"http_4xx", "nonjson"}
            => /\ j = Len(outcomes)
               /\ HasReturned
               /\ returned.k \in {"None", "errors"}
               /\ Len(sleeps) = j - 1

\* C14: the value returned once the 3 attempts are exhausted differs from the
\* value returned for a client error and from the value returned for a
\* malformed response, in chase_api_get and in pipefy_post.
C14_ExhaustedIsDistinguishable ==
    (HasReturned /\ Len(outcomes) = max_retries
        /\ \A j \in 1..Len(outcomes) : outcomes[j] \in Retryable)
        => /\ returned # ReturnOnClientError(fn)
           /\ returned # ReturnOnMalformed(fn)

\* Vocabulary of the claims on execute_pipefy_mutations: the batches of the
\* call that executes the fragments of one kind, and the value it returned.
SubmittedOf(kind) == SelectSeq(submitted, LAMBDA e : e.kind = kind)
RequestsOf(kind) == { j \in 1..Len(requests) : requests[j] = kind }
Ceil(n, d) == IF n % d = 0 THEN n \div d ELSE (n \div d) + 1

RECURSIVE BatchConcat(_)
BatchConcat(entries) ==
    IF entries = <<>> THEN <<>>
    ELSE Head(entries).batch \o BatchConcat(Tail(entries))

ExecutedAll(mutations, kind, flag) ==
    flag # "unset"
        => /\ Len(SubmittedOf(kind)) = Ceil(Len(mutations), 50)
           /\ Cardinality(RequestsOf(kind)) = Len(SubmittedOf(kind))
           /\ \A b \in 1..Len(SubmittedOf(kind)) :
                /\ SubmittedOf(kind)[b].batch # <<>>
                /\ SubmittedOf(kind)[b].batch[1] = mutations[(b - 1) * 50 + 1]
           /\ (flag = "True") <=>
                 \A b \in 1..Len(SubmittedOf(kind)) : SubmittedOf(kind)[b].clean
           /\ mutations = <<>> => (flag = "True" /\ RequestsOf(kind) = {})

\* C15: a call of execute_pipefy_mutations that has returned has submitted
\* every batch of its list, in order, whatever became of the earlier batches,
\* and has returned True exactly when every batch's answer was free of errors
\* and carried a success indicator for every fragment of the batch; for an
\* empty list it has returned True without a request.
C15_EveryBatchSubmittedAndAggregated ==
    /\ ExecutedAll(create_mutations, "create", success_c)
    /\ ExecutedAll(update_mutations, "update", success_u)
    /\ ExecutedAll(archive_mutations, "archive", success_a)

\* 101 fragments: the first batch failed, the other two were submitted and
\* succeeded, and the call returned False
C15_Witness ==
    /\ Len(create_mutations) = 101
    /\ success_c = "False"
    /\ Len(SubmittedOf("create")) = 3
    /\ ~SubmittedOf("create")[1].clean
    /\ SubmittedOf("create")[2].clean
    /\ SubmittedOf("create")[3].clean

Batched(mutations, kind, flag) ==
    flag # "unset"
        => /\ Len(SubmittedOf(kind)) = Ceil(Len(mutations), 50)
           /\ \A b \in 1..Len(SubmittedOf(kind)) :
                Len(SubmittedOf(kind)[b].batch) <= 50
           /\ BatchConcat(SubmittedOf(kind)) = mutations

\* C16: a call of execute_pipefy_mutations on N fragments that has returned
\* has submitted exactly ceil(N/50) batches, of at most 50 fragments each,
\* whose concatenation in submission order is the list it was given.
C16_BatchesPartitionTheList ==
    /\ Batched(create_mutations, "create", success_c)
    /\ Batched(update_mutations, "update", success_u)
    /\ Batched(archive_mutations, "archive", success_a)

\* 101 fragments went out as batches of 50, 50 and 1
C16_Witness ==
    /\ Len(create_mutations) = 101
    /\ success_c # "unset"
    /\ Len(SubmittedOf("create")) = 3
    /\ Len(SubmittedOf("create")[1].batch) = 50
    /\ Len(SubmittedOf("create")[2].batch) = 50
    /\ Len(SubmittedOf("create")[3].batch) = 1

PhaseRequests == { j \in 1..Len(requests) : requests[j] = "phases" }

\* C17: within one pass over a table get_done_phase_id sends the phase-list
\* query at most once, however many records are archived, and every call
\* after the first returns what the first call returned.
C17_PhaseQuerySentAtMostOnce ==
    /\ Cardinality(PhaseRequests) <= 1
    /\ \A j \in 1..Len(done_phase_ids) : done_phase_ids[j] = done_phase_ids[1]

HasEscapable(chars) == \E j \in 1..Len(chars) : chars[j] \in {"\\", "\""}

\* C18 as stated: sanitize_graphql_string applied to its own result gives
\* that result again, for every value.
C18_SanitizeIdempotent ==
    Len(sanitized) = 2 => sanitized[2] = sanitized[1]

\* C18: sanitize_graphql_string applied to its own result gives that result
\* again exactly when the result holds no backslash and no double quote, so
\* for every value whose text has neither; otherwise the second application
\* escapes the escapes of the first and the result grows.
C18_SanitizeIdempotentWithoutEscapes ==
    Len(sanitized) = 2
        => /\ (sanitized[2] = sanitized[1]) <=> ~HasEscapable(sanitized[1])
           /\ HasEscapable(PyStr(value)) <=> HasEscapable(sanitized[1])
           /\ HasEscapable(sanitized[1]) => Len(sanitized[2]) > Len(sanitized[1])

\* a string with a whitespace run and no escapable character, sanitized twice
C18_Witness ==
    /\ value = VStr(<<"a", " ", "\n">>)
    /\ sanitized = << <<"a">>, <<"a">> >>

\* Vocabulary of the claims on main.
FailedFetches == { j \in 1..Len(fetched) : ~fetched[j].ok }
FailedSyncs == { j \in 1..Len(synced) : ~synced[j].clean }
NumTables == 2 + Len(AGENCY_PRODUCT_TABLE_MAP)

\* C19: when a dependent fetch (clients, business units, divisions or
\* products) of any config returned a failure or a value that is not a list,
\* the building of the client-name lookup included, the run goes on to the
\* other fetches and to every table, its success flag ends false and the
\* process exits non-zero.
C19_FailedFetchDegradesRun ==
    (main_pc = "exit" /\ IsList(configs.k) /\ FailedFetches # {})
        => /\ Len(synced) = NumTables
           /\ overall_success = "False"
           /\ exit_code = "1"

\* C20: the run exits with status 0 only if for every table synced the
\* destination fetch succeeded and the create, update and archive executions
\* all returned success; a failure of any of them for any table makes the
\* exit status non-zero.
C20_ExitZeroOnlyIfEveryTableClean ==
    /\ exit_code = "0" => (FailedSyncs = {} /\ Len(synced) = NumTables)
    /\ (main_pc = "exit" /\ FailedSyncs # {}) => exit_code = "1"

\* every source fetch succeeded and only the sync of the last product table
\* failed: the exit status is 1
C20_Witness ==
    /\ main_pc = "exit"
    /\ fetched # <<>>
    /\ FailedFetches = {}
    /\ FailedSyncs = {NumTables}
    /\ exit_code = "1"

\* the tables main hands to sync_table, in the order of lines 676-698
TablesToSync ==
    <<BU_AGENCY_TABLE_ID, DIVISIONS_TABLE_ID>>
    \o [j \in 1..Len(AGENCY_PRODUCT_TABLE_MAP) |-> AGENCY_PRODUCT_TABLE_MAP[j][2]]

SyncedTables == [j \in 1..Len(synced) |-> synced[j].table_id]

\* C21: once the configs were fetched as a list, sync_table is called exactly
\* once for the business-unit table, once for the divisions table and once
\* for each product table of AGENCY_PRODUCT_TABLE_MAP, whatever source fetch
\* or table sync failed before: the calls made so far are always the first
\* tables of that list, and at the exit they are the whole list.
C21_EveryTableSyncedOnce ==
    /\ Len(synced) <= Len(TablesToSync)
    /\ SyncedTables = SubSeq(TablesToSync, 1, Len(synced))
    /\ (main_pc = "exit" /\ IsList(configs.k)) => SyncedTables = TablesToSync

\* a source fetch failed and the first table's sync failed, and all seven
\* tables were synced
C21_Witness ==
    /\ main_pc = "exit"
    /\ FailedFetches # {}
    /\ 1 \in FailedSyncs
    /\ SyncedTables = TablesToSync
    /\ Len(synced) = 7

\* ------------------------------------------------------------------------
\* build_pipefy_mutations on its own: the three lists are drawn from records
\* whose key values are equal, or differ only in characters that re.sub
\* replaces, or give the same text once joined.
MaxBuild == 3         \* records in the list handed to build_pipefy_mutations

\* <<config_id, business_unit_id>> of the records tried
BuildKeys ==
    { <<VStr(<<"1", "_", "2">>), VStr(<<"3">>)>>,
      <<VStr(<<"1">>), VStr(<<"2", "_", "3">>)>>,
      <<VStr(<<"1">>), VStr(<<"-">>)>>,
      <<VStr(<<"1">>), VStr(<<"_">>)>>,
      <<I1, I2>> }

\* the record with these key values as it stands in to_create, to_update
\* (lines 507-510) and to_archive (lines 231-236)
BuildRecord(action, k) ==
    LET chase_record ==
            MkRecord(<< <<"config_id", k[1]>>, <<"business_unit_id", k[2]>>,
                        <<"business_unit_name", NameA>>, <<"status", VStr(ACTIVE)>> >>)
        pipefy_record ==
            ("config_id" :> k[1])
            @@ RecordData(DstRow(BU_AGENCY_TABLE_ID, k[2], NameB, NameA, OtherX,
                                 VStr(ACTIVE)), 5)
    IN CASE action = "create" -> chase_record
         [] action = "update" -> UpdateData(chase_record, pipefy_record)
         [] OTHER -> pipefy_record

BuildLists(action) ==
    SeqsUpTo({ BuildRecord(action, k) : k \in BuildKeys }, MaxBuild)

\* sync_table at line 519, with one of the three lists drawn
InitBuild ==
    /\ pipefy_table_id = BU_AGENCY_TABLE_ID
    /\ chase_data_list = <<>>
    /\ pc = "build"
    /\ all_records = <<>>
    /\ page_count = 1
    /\ cursor = VNone
    /\ pipefy_data = [k |-> "list", v |-> <<>>]
    /\ \E action \in {"create", "update", "archive"} :
        /\ to_create \in IF action = "create" THEN BuildLists(action) ELSE {<<>>}
        /\ to_update \in IF action = "update" THEN BuildLists(action) ELSE {<<>>}
        /\ to_archive \in IF action = "archive" THEN BuildLists(action) ELSE {<<>>}
    /\ create_mutations = <<>> /\ update_mutations = <<>> /\ archive_mutations = <<>>
    /\ archive_i = 0
    /\ done_phase_ids = <<>>
    /\ DONE_PHASE_CACHE = <<>>
    /\ batch_start = 0
    /\ all_successful = TRUE
    /\ success_c = "unset" /\ success_u = "unset" /\ success_a = "unset"
    /\ response = "data"
    /\ requests = <<"table_records">>
    /\ sent_cursors = <<Missing>>
    /\ pages = << [edges |-> <<>>, endCursor |-> VNone, hasNextPage |-> FALSE] >>
    /\ submitted = <<>>
    /\ result = "running"
    /\ RetryIdle
    /\ SanIdle
    /\ MainIdle
    /\ DelIdle
    /\ CollectIdle

\* lines 519-520: build_pipefy_mutations for the creates and for the updates
BuildCall ==
    /\ pc = "build"
    /\ UNCHANGED otherVars
    /\ create_mutations' =
          build_pipefy_mutations(to_create, 0, pipefy_table_id, "create", field_mapping)
    /\ update_mutations' =
          build_pipefy_mutations(to_update, 0, pipefy_table_id, "update", field_mapping)
    /\ pc' = IF to_archive = <<>> THEN "exec_create" ELSE "build_archive"
    /\ UNCHANGED <<pipefy_table_id, chase_data_list, all_records, page_count,
                   cursor, pipefy_data, to_create, to_update, to_archive,
                   archive_mutations, archive_i, done_phase_ids,
                   DONE_PHASE_CACHE, batch_start, all_successful,
                   success_c, success_u, success_a, response, requests,
                   sent_cursors, pages, submitted, result>>

NextBuild ==
    \/ BuildCall
    \/ ArchiveCached
    \/ ArchiveLookupFails
    \/ ArchiveLookupOk

SpecBuild == InitBuild /\ [][NextBuild]_vars

Aliases(mutations) == [j \in 1..Len(mutations) |-> mutations[j].alias]
Distinct(seq) == \A j, k \in 1..Len(seq) : j # k => seq[j] # seq[k]
\* the suffix the record would get at position 0
KeyText(record, action) == unique_suffix(record, 0, action, field_mapping)

\* C22: no two fragments of a list returned by build_pipefy_mutations carry
\* the same alias, the '_ttl' title fragments and the records with equal or
\* look-alike key values included.
C22_AliasesAreDistinct ==
    /\ Distinct(Aliases(create_mutations))
    /\ Distinct(Aliases(update_mutations))
    /\ Distinct(Aliases(archive_mutations))

\* three records to update, the first two equal and the third with other key
\* values that read the same once non-identifier characters are replaced,
\* each with a field fragment and a title fragment
C22_Witness ==
    /\ pc = "exec_create"
    /\ Len(to_update) = 3
    /\ to_update[1] = to_update[2]
    /\ to_update[3] # to_update[1]
    /\ KeyText(to_update[3], "update") = KeyText(to_update[1], "update")
    /\ Len(update_mutations) = 6
    /\ \E j \in 1..5 :
          update_mutations[j + 1].alias
             = update_mutations[j].alias \o <<"_", "t", "t", "l">>

\* ------------------------------------------------------------------------
\* One run of src/delete_pipefy_table.py.
MaxDelPages == 2        \* pages the table serves to the delete script
MaxPageRecords == 50    \* nodes with an id on the largest page tried

\* the command lines tried: the script alone, and with a table id
Argvs == { <<"delete_pipefy_table.py">>,
           <<"delete_pipefy_table.py", BU_AGENCY_TABLE_ID>> }

\* what the operator can type at the prompt of line 147
Confirmations == {"DELETE", "delete", "DELETE ", "", "yes"}

\* the numbers of nodes with an id a page can carry (line 113 drops the
\* nodes without one)
PageSizes == {0, 1, 2, MaxPageRecords}

\* the confirmation test of line 148 passing whatever was typed
ConfirmedAlways(typed) == TRUE

\* the confirmation test of line 148
Confirmed(typed) == typed = "DELETE"

\* lines 153-157
DeleteMutations(record_ids) ==
    [j \in 1..Len(record_ids) |->
        [alias |-> <<"d", "e", "l", "_">> \o IntStr(j - 1),
         op |-> "deleteTableRecord", record_id |-> record_ids[j]]]

\* batch = delete_mutations[i:i+batch_size], line 165
DelBatchOf(mutations, i) ==
    SubSeq(mutations, i + 1, Min(i + batch_size, Len(mutations)))

InitDelete ==
    /\ del_pc = "start"
    /\ argv \in Argvs
    /\ all_record_ids = <<>>
    /\ del_page_count = 0
    /\ confirmation = "unset"
    /\ delete_mutations = <<>>
    /\ del_batch_start = 0
    /\ del_all_successful = TRUE
    /\ total_deleted = 0
    /\ del_requests = <<>>
    /\ del_result = "running"
    /\ del_exit = "running"
    /\ SyncIdle
    /\ RetryIdle
    /\ SanIdle
    /\ MainIdle
    /\ CollectIdle

\* main, lines 192-200
DelMain ==
    /\ del_pc = "start"
    /\ IF Len(argv) > 1
       THEN del_pc' = "fetch" /\ del_exit' = del_exit
       ELSE del_pc' = "exit" /\ del_exit' = "1"
    /\ UNCHANGED <<argv, all_record_ids, del_page_count, confirmation,
                   delete_mutations, del_batch_start, del_all_successful,
                   total_deleted, del_requests, del_result>>
    /\ UNCHANGED <<syncVars, retryVars, sanVars, mainVars, collectVars>>

\* One iteration of the page loop of get_pipefy_table_records (lines 92-121)
\* and, when the loop ends, its return and the test of lines 132-134.
DelFetchPage ==
    /\ del_pc = "fetch"
    /\ del_page_count' = del_page_count + 1
    /\ del_requests' = Append(del_requests, "table_records")
    /\ \E kind \in PostFailures \cup {"data"}, n \in PageSizes, hasNextPage \in BOOLEAN :
        /\ hasNextPage => del_page_count' < MaxDelPages
        /\ IF ~ResponseOk(kind)
           THEN /\ all_record_ids' = <<>>
                /\ del_result' = "False"
                /\ del_pc' = "exit"
                /\ del_exit' = "0"
           ELSE /\ all_record_ids' =
                      all_record_ids \o
                      [j \in 1..n |-> VStr(IntStr(Len(all_record_ids) + j))]
                /\ IF hasNextPage
                   THEN del_pc' = "fetch" /\ UNCHANGED <<del_result, del_exit>>
                   ELSE IF all_record_ids' = <<>>
                   THEN del_result' = "False" /\ del_pc' = "exit" /\ del_exit' = "0"
                   ELSE del_pc' = "confirm" /\ UNCHANGED <<del_result, del_exit>>
    /\ UNCHANGED <<argv, confirmation, delete_mutations, del_batch_start,
                   del_all_successful, total_deleted>>
    /\ UNCHANGED <<syncVars, retryVars, sanVars, mainVars, collectVars>>

\* lines 136-162: the prompt, and the mutations built once it is confirmed
DelConfirm ==
    /\ del_pc = "confirm"
    /\ \E typed \in Confirmations :
        /\ confirmation' = typed
        /\ IF ~Confirmed(typed)
           THEN /\ del_result' = "False"
                /\ del_pc' = "exit"
                /\ del_exit' = "0"
                /\ UNCHANGED delete_mutations
           ELSE /\ delete_mutations' = DeleteMutations(all_record_ids)
                /\ del_pc' = "delete"
                /\ UNCHANGED <<del_result, del_exit>>
    /\ UNCHANGED <<argv, all_record_ids, del_page_count, del_batch_start,
                   del_all_successful, total_deleted, del_requests>>
    /\ UNCHANGED <<syncVars, retryVars, sanVars, mainVars, collectVars>>

\* One iteration of the batch loop (lines 164-183), the last one followed by
\* the return of line 190 and the end of main.
DelBatch ==
    /\ del_pc = "delete"
    /\ del_requests' = Append(del_requests, "deleteTableRecord")
    /\ \E kind \in PostFailures \cup {"data"},
          success_count \in {0, Len(DelBatchOf(delete_mutations, del_batch_start))} :
        LET still == del_all_successful /\ ResponseOk(kind)
        IN /\ total_deleted' = IF ResponseOk(kind) THEN total_deleted + success_count
                                                   ELSE total_deleted
           /\ ~ResponseOk(kind) => success_count = 0
           /\ IF del_batch_start + batch_size < Len(delete_mutations)
              THEN /\ del_batch_start' = del_batch_start + batch_size
                   /\ del_all_successful' = still
                   /\ UNCHANGED <<del_pc, del_result, del_exit>>
              ELSE /\ del_all_successful' = still
                   /\ del_result' = PyBool(still)
                   /\ del_pc' = "exit"
                   /\ del_exit' = "0"
                   /\ UNCHANGED del_batch_start
    /\ UNCHANGED <<argv, all_record_ids, del_page_count, confirmation,
                   delete_mutations>>
    /\ UNCHANGED <<syncVars, retryVars, sanVars, mainVars, collectVars>>

NextDelete ==
    \/ DelMain
    \/ DelFetchPage
    \/ DelConfirm
    \/ DelBatch

SpecDelete == InitDelete /\ [][NextDelete]_vars

DeleteRequests ==
    { j \in 1..Len(del_requests) : del_requests[j] = "deleteTableRecord" }

\* C23: the delete script sends no deleteTableRecord request unless the
\* operator typed exactly DELETE; after any other input it returns False
\* having sent none, and run without a table id it exits with status 1
\* having sent no request at all.
C23_NoDeleteWithoutConfirmation ==
    /\ DeleteRequests # {} => confirmation = "DELETE"
    /\ confirmation \notin {"unset", "DELETE"}
          => /\ del_pc = "exit"
             /\ del_result = "False"
             /\ DeleteRequests = {}
             /\ delete_mutations = <<>>
    /\ (Len(argv) <= 1 /\ del_pc = "exit")
          => /\ del_exit = "1"
             /\ del_requests = <<>>

\* records were found and the operator typed DELETE followed by a space
C23_Witness ==
    /\ del_pc = "exit"
    /\ Len(all_record_ids) > batch_size
    /\ confirmation = "DELETE "
    /\ del_result = "False"
    /\ DeleteRequests = {}

\* C24 (as claimed): a record classified as needing update whose non-key,
\* non-title mapped fields all equal the destination's and whose title equals
\* the destination title (destination status 'Active') gets no fragment at
\* all, neither updateFieldsValues nor updateTableRecord.
C24_UnchangedUpdateGivesNoFragment ==
    Classified =>
        \A K \in (SrcKeys \cap DstKeys) \cap UpdateKeys :
            LET c == LastSrc(K)
                p == LastDst(K)
            IN (/\ \A j \in PlainFields : FieldSame(c, p, j)
                /\ TitleSame(c, p)
                /\ DstActive(p))
               => /\ FragsFor(update_mutations, p["pipefy_record_id"],
                              "updateFieldsValues") = {}
                  /\ FragsFor(update_mutations, p["pipefy_record_id"],
                              "updateTableRecord") = {}

\* every batch of the call but the last was followed by the 2-second pause
PausedBetween(mutations, kind) ==
    \A b \in 1..Len(SubmittedOf(kind)) :
        SubmittedOf(kind)[b].paused <=> (b < Ceil(Len(mutations), batch_size))

\* C25 (as claimed): in a call of execute_pipefy_mutations the 2-second pause
\* follows every batch that is not the last one, whether that batch
\* succeeded, partially failed or failed as a whole, and does not follow the
\* last batch.
C25_PauseBetweenConsecutiveBatches ==
    /\ PausedBetween(create_mutations, "create")
    /\ PausedBetween(update_mutations, "update")
    /\ PausedBetween(archive_mutations, "archive")

\* the identity keys that two or more records of the source list yield
CollidingKeys ==
    { K \in SrcKeys :
        Cardinality({ n \in 1..Len(chase_data_list) : SrcKey(chase_data_list[n]) = K }) > 1 }
CreatesOf(K) == { j \in 1..Len(to_create) : SrcKey(to_create[j]) = K }
UpdatesOfKey(K) == { j \in 1..Len(to_update) : SrcKey(to_update[j]) = K }

\* C26: when two or more source records yield the same identity key, only
\* the last of them in list order is reconciled: the key has at most one
\* entry in to_create and to_update together, that entry comes from the last
\* record, every fragment is built from an entry of the lists (so the other
\* records give none), and the value sync_table returns depends only on the
\* answers to the batches it submitted.
C26_CollisionKeepsLastRecordSilently ==
    Classified =>
        /\ \A K \in CollidingKeys :
              /\ Cardinality(CreatesOf(K)) + Cardinality(UpdatesOfKey(K)) <= 1
              /\ \A j \in CreatesOf(K) : to_create[j] = LastSrc(K)
              /\ \A j \in UpdatesOfKey(K) :
                    to_update[j] = UpdateData(LastSrc(K), LastDst(K))
        /\ \A j \in 1..Len(create_mutations) :
              /\ create_mutations[j].i < Len(to_create)
              /\ \A k \in 1..Len(create_mutations) :
                    j # k => create_mutations[j].i # create_mutations[k].i
        /\ \A j \in 1..Len(update_mutations) :
              /\ update_mutations[j].i < Len(to_update)
              /\ \A k \in 1..Len(update_mutations) :
                    (j # k /\ update_mutations[j].i = update_mutations[k].i)
                        => update_mutations[j].op # update_mutations[k].op
        /\ pc = "done" =>
              result = PyBool(\A j \in 1..Len(submitted) : submitted[j].clean)

\* two different source records share a key the destination has, the pass
\* has finished and the update carries the later record's values
C26_Witness ==
    /\ Classified
    /\ pc = "done"
    /\ result = "True"
    /\ \E K \in CollidingKeys \cap DstKeys :
          /\ chase_data_list[1] # chase_data_list[2]
          /\ LastSrc(K) = chase_data_list[2]
          /\ Cardinality(UpdatesOfKey(K)) = 1
          /\ update_mutations # <<>>

\* C27: when the fetch of the configs does not yield a list, the run ends at
\* once with a non-zero exit status: no dependent fetch is made and
\* sync_table (hence every destination fetch and every mutation) is not
\* called.
C27_NoConfigsAbortsRun ==
    (configs.k \notin {"pending", "list"})
        => /\ main_pc = "exit"
           /\ exit_code = "1"
           /\ fetched = <<>>
           /\ synced = <<>>
           /\ overall_success = "unset"

\* chase_api_get returned None for the configs and the run has ended
C27_Witness ==
    /\ configs.k = "None"
    /\ main_pc = "exit"
    /\ exit_code = "1"
    /\ synced = <<>>

\* ------------------------------------------------------------------------
\* The destination after a pass whose mutations were all applied, and the
\* lists a second pass over it builds.

\* the string a GraphQL string literal denotes
RECURSIVE GraphQLUnescape(_)
GraphQLUnescape(s) ==
    IF s = <<>> THEN <<>>
    ELSE IF Head(s) = "\\" /\ Len(s) >= 2
    THEN << CASE s[2] = "n" -> "\n"
              [] s[2] = "r" -> "\r"
              [] s[2] = "t" -> "\t"
              [] OTHER -> s[2] >> \o GraphQLUnescape(SubSeq(s, 3, Len(s)))
    ELSE <<Head(s)>> \o GraphQLUnescape(Tail(s))

\* the record with the field values of a fragment stored
StoreValues(p, values) ==
    [slug \in { values[j][1] : j \in 1..Len(values) } |->
        VStr(GraphQLUnescape(DictGet(values, slug)))] @@ p

\* the record once the destination applied the fragments that address it; a
\* record moved to the Done phase stays in the table with its fields
RECURSIVE ApplyFragments(_, _)
ApplyFragments(p, frags) ==
    IF frags = <<>> THEN p
    ELSE LET f == Head(frags)
             q == IF f.record_id # PyStr(p["pipefy_record_id"]) THEN p
                  ELSE IF f.op = "updateFieldsValues" THEN StoreValues(p, f.values)
                  ELSE IF f.op = "updateTableRecord"
                  THEN ("title" :> VStr(GraphQLUnescape(f.title))) @@ p
                  ELSE p
         IN ApplyFragments(q, Tail(frags))

\* the record a createTableRecord fragment leaves in the table
CreatedRecord(f, n) ==
    StoreValues(("pipefy_record_id" :> VStr(IntStr(n)))
                @@ ("title" :> VStr(GraphQLUnescape(f.title))), f.values)

\* what get_pipefy_table_records returns after the pass
DestinationAfterPass ==
    [n \in 1..Len(pipefy_data.v) |->
        ApplyFragments(pipefy_data.v[n], update_mutations \o archive_mutations)]
    \o [j \in 1..Len(create_mutations) |->
        CreatedRecord(create_mutations[j], Len(pipefy_data.v) + j)]

pipefy_map_2 ==
    KeyMap(DestinationAfterPass, TRUE, pipefy_table_id, field_mapping, <<>>)
to_create_2 == ToCreate(chase_map, pipefy_map_2)
to_update_2 == ToUpdate(chase_map, pipefy_map_2, field_mapping)
to_archive_2 == ToArchive(pipefy_map_2, chase_map)

\* the pass has finished and every batch it submitted was applied in full
PassApplied ==
    /\ Classified
    /\ pc = "done"
    /\ \A j \in 1..Len(submitted) : submitted[j].clean

\* C28 (as claimed): after a pass whose mutations were all applied, a second
\* pass over the resulting destination with the same source list builds no
\* fragment: no create, no update and no archive.
C28_SecondPassBuildsNothing ==
    PassApplied =>
        /\ build_pipefy_mutations(to_create_2, 0, pipefy_table_id, "create",
                                  field_mapping) = <<>>
        /\ build_pipefy_mutations(to_update_2, 0, pipefy_table_id, "update",
                                  field_mapping) = <<>>
        /\ \A j \in 1..Len(to_archive_2) :
              ~Truthy(Get(to_archive_2[j], "pipefy_record_id", VNone))

\* ------------------------------------------------------------------------
\* main for one config: the fetch of its business units (lines 596-612) and
\* the sync of the business-unit table with what was collected (line 677).

\* a business unit as the source serves it
RawBusinessUnit(id, name) ==
    MkRecord(<< <<"BusinessUnitID", id>>, <<"BusinessUnit", name>> >>)

RawBusinessUnits ==
    { RawBusinessUnit(I1, NameA), RawBusinessUnit(I1, NameB),
      RawBusinessUnit(I2, NameA), RawBusinessUnit(VNone, NameA) }

\* what chase_api_get can return when the source holds the list source: the
\* list, [] for an empty body (line 77), None, or JSON that is not a list
ChaseAnswers(source) ==
    { [k |-> "list", v |-> source, body |-> "json"],
      [k |-> "list", v |-> <<>>, body |-> "empty"],
      [k |-> "None", v |-> <<>>, body |-> "none"],
      [k |-> "nonlist", v |-> <<>>, body |-> "json"] }

\* lines 598-609: the records appended to all_business_units
RECURSIVE CollectBusinessUnitData(_, _)
CollectBusinessUnitData(units, config_id) ==
    IF units = <<>> THEN <<>>
    ELSE LET bu == Head(units)
             bu_data ==
                MkRecord(<< <<"config_id", config_id>>,
                            <<"business_unit_id", Get(bu, "BusinessUnitID", VNone)>>,
                            <<"business_unit_name", Get(bu, "BusinessUnit", VNone)>>,
                            <<"status", VStr(ACTIVE)>> >>)
         IN (IF Truthy(bu_data["business_unit_id"]) THEN <<bu_data>> ELSE <<>>)
            \o CollectBusinessUnitData(Tail(units), config_id)

InitCollect ==
    /\ main_pc = "collect"
    /\ configs = [k |-> "list", v |-> <<I1>>]
    /\ config_i = 0
    /\ overall_success = "True"
    /\ exit_code = "running"
    /\ fetched = <<>>
    /\ synced = <<>>
    /\ chase_business_units \in SeqsUpTo(RawBusinessUnits, MaxSrc)
    /\ business_units = [k |-> "pending", v |-> <<>>, body |-> "none"]
    /\ SyncIdle
    /\ RetryIdle
    /\ SanIdle
    /\ DelIdle

\* lines 596-612 for the config, then the call of sync_table of line 677
CollectBusinessUnits ==
    /\ main_pc = "collect"
    /\ \E answer \in ChaseAnswers(chase_business_units) :
        /\ business_units' = answer
        /\ fetched' = Append(fetched,
              Fetch("business_units", "collect", configs.v[config_i + 1], answer.k))
        /\ IF IsList(answer.k)
           THEN /\ chase_data_list' =
                     CollectBusinessUnitData(answer.v, configs.v[config_i + 1])
                /\ overall_success' = overall_success
           ELSE /\ chase_data_list' = <<>>
                /\ overall_success' = "False"
    /\ config_i' = config_i + 1
    /\ main_pc' = "sync_bu"
    /\ pc' = "fetch"
    /\ UNCHANGED <<pipefy_table_id, all_records, page_count, cursor, pipefy_data,
                   to_create, to_update, to_archive, create_mutations,
                   update_mutations, archive_mutations, archive_i, done_phase_ids,
                   DONE_PHASE_CACHE, batch_start, all_successful,
                   success_c, success_u, success_a, response, requests,
                   sent_cursors, pages, submitted, result>>
    /\ UNCHANGED <<configs, exit_code, synced, chase_business_units>>
    /\ UNCHANGED <<retryVars, sanVars, delVars>>

NextCollect ==
    \/ CollectBusinessUnits
    \/ Next

SpecCollect == InitCollect /\ [][NextCollect]_vars

\* the source holds a business unit with the key attributes of the record
InSource(record) ==
    \E j \in 1..Len(chase_business_units) :
        /\ PyStr(configs.v[1]) = PyStr(Get(record, "config_id", VNone))
        /\ PyStr(Get(chase_business_units[j], "BusinessUnitID", VNone))
             = PyStr(Get(record, "business_unit_id", VNone))

\* C29 (as claimed): a destination record is archived only if the source
\* holds no such entity: whatever the fetch of the config's business units
\* returned (the list, None, a non-list or [] for an empty body), a
\* destination record whose business unit the source holds is not in
\* to_archive and no archive fragment is built for it.
C29_ArchiveOnlyWhatTheSourceLacks ==
    Classified =>
        \A n \in 1..Len(pipefy_data.v) :
            InSource(pipefy_data.v[n])
               => /\ ~InToArchive(pipefy_data.v[n])
                  /\ FragsFor(archive_mutations, pipefy_data.v[n]["pipefy_record_id"],
                              "updateFieldsValues") = {}
                  /\ FragsFor(archive_mutations, pipefy_data.v[n]["pipefy_record_id"],
                              "updateTableRecordField") = {}

\* the outcomes of a POST that reached the destination, or may have, without
\* the caller getting a clean answer
SentUnanswered == {"timeout", "http_5xx", "http_429", "graphql_errors"}

\* C30 (as claimed): pipefy_post sends the payload it was given, a batch of
\* mutation fragments, in at most one HTTP request: no attempt follows an
\* attempt that ended in a timeout, a 5xx or 429 status, or a 200 answer with
\* GraphQL errors.
C30_BatchPostedAtMostOnce ==
    fn = "pipefy_post" =>
        \A j \in 1..Len(outcomes) :
            outcomes[j] \in SentUnanswered => j = Len(outcomes)

====
